---- MODULE Spec2Model ----
(***************************************************************************)
(* Request-admission layer of st0x-rest-api: the sliding-window rate       *)
(* limiter (src/fairings/rate_limiter.rs), the Basic-auth request guard    *)
(* (src/auth.rs), the route guard lists (src/routes/*.rs) and the response *)
(* finalisation (src/catchers.rs, RateLimitHeadersFairing).                *)
(*                                                                         *)
(* Each inbound request is one concurrent task.  A task is cut into steps  *)
(* at the points where other tasks can observe or change shared state:     *)
(* the acquisition and the release of a limiter mutex, and the credential  *)
(* store query.  Everything a task does on request-local data between two  *)
(* such points belongs to the step that precedes it.                       *)
(*                                                                         *)
(* Time is the monotonic clock in whole seconds; Option<T> is a sequence   *)
(* of length 0 (None) or 1 (Some).                                         *)
(***************************************************************************)
EXTENDS Integers, Sequences, FiniteSets, TLC

\* ------------------------------------------------------------------ bounds
MaxRequests == 2
MaxInFlight == 2
MaxTicks == 2
UnixOffset == 1000
MaxCalls == 4
MaxHalfTicks == 4
MaxCommands == 2
TicksPerSecond == 2
MaxTextLen == 4

\* ------------------------------------------------------- program constants
WINDOW_DURATION == 60
PER_KEY_CLEANUP_EVERY == 1024

\* one tick of the clock: a whole window length, so that a timestamp is seen
\* at age 0, at age WINDOW_DURATION exactly, and older
TickStep == WINDOW_DURATION

None == <<>>
Some(x) == <<x>>
Unwrap(o) == o[1]

Reqs == 1..MaxRequests

\* the limits the server is started with: disabled, and two small limits
RpmChoices == {0, 1, 2}

VARIABLES
    clock,                \* Instant::now(), seconds
    global_rpm,           \* RateLimiter.global_rpm
    per_key_rpm,          \* RateLimiter.per_key_rpm
    global_window,        \* RateLimiter.global_window (contents)
    per_key_windows,      \* RateLimiter.per_key_windows (contents)
    per_key_check_count,  \* RateLimiter.per_key_check_count
    global_lock,          \* holder of the global_window mutex, 0 = free
    per_key_lock,         \* holder of the per_key_windows mutex, 0 = free
    global_poisoned,      \* the global_window mutex is poisoned
    per_key_poisoned,     \* the per_key_windows mutex is poisoned
    global_check_count,   \* history: number of check_global calls that locked
    api_keys,             \* rows of table api_keys
    req,                  \* per request: position, locals, local cache, response
    calls,                \* history: the direct calls of the limiter, in order
    usage_logs,           \* rows of table usage_logs
    commands              \* history: the keys commands run so far, with their results

vars == <<clock, global_rpm, per_key_rpm, global_window, per_key_windows,
          per_key_check_count, global_lock, per_key_lock, global_poisoned,
          per_key_poisoned, global_check_count, api_keys, req, calls, usage_logs, commands>>

limiter_cfg == <<global_rpm, per_key_rpm>>
global_state == <<global_window, global_lock, global_poisoned, global_check_count>>
per_key_state == <<per_key_windows, per_key_lock, per_key_poisoned, per_key_check_count>>

\* ------------------------------------------------------------ credentials
\* A stored PHC hash record of a secret (salt left out: verification does
\* not depend on it).
hash_secret(secret) == [phc |-> TRUE, secret |-> secret]

\* PasswordHash::new(&row.secret_hash) succeeds
PasswordHash_new_ok(h) == h.phc

\* faulty variant of verify_password: every secret passes
verify_password_Any(secret, h) == TRUE

\* Argon2::default().verify_password(secret, &parsed_hash).is_ok()
verify_password(secret, h) == h.secret = secret

ApiKeyRows ==
    { [id |-> 1, key_id |-> <<"ka">>, secret_hash |-> hash_secret(<<"sa">>), active |-> TRUE],
      [id |-> 2, key_id |-> <<"kb">>, secret_hash |-> hash_secret(<<"sb">>), active |-> TRUE],
      [id |-> 3, key_id |-> <<"kc">>, secret_hash |-> hash_secret(<<"sc">>), active |-> FALSE],
      [id |-> 4, key_id |-> <<"kd">>, secret_hash |-> [phc |-> FALSE, secret |-> <<"sd">>],
       active |-> TRUE] }

\* The first bytes of an Authorization header value, as the scheme test sees
\* them: "Basic " followed by more, another scheme, the bare word, and
\* "Basic" followed by a two-byte character (U+00E9), whose second byte is
\* byte 6 of the value.
SchemeBasic == "Basic "
SchemeOther == "Bearer "
SchemeBare == "Basic"
SchemeSplitChar == "Basic+U00E9"

\* header.len() > 6 && header[..6].eq_ignore_ascii_case("Basic "): the slice
\* header[..6] panics when byte 6 is not a character boundary
basic_prefix(scheme) ==
    CASE scheme = SchemeBasic -> "match"
      [] scheme = SchemeSplitChar -> "panic"
      [] OTHER -> "mismatch"

\* basic_auth_header: "Basic " + base64(key_id ":" secret)
basic_auth_header(key_id, secret) ==
    Some([scheme |-> SchemeBasic, b64 |-> TRUE, utf8 |-> TRUE, text |-> key_id \o <<":">> \o secret])

\* ----------------------------------------------------------------- routes
get_tokens_guards == <<"GlobalRateLimit", "AuthenticatedKey">>
post_order_dca_guards == <<"AuthenticatedKey">>
get_health_guards == <<>>

RouteGuards(route) ==
    CASE route = "get_tokens" -> get_tokens_guards
      [] route = "post_order_dca" -> post_order_dca_guards
      [] route = "get_health" -> get_health_guards

\* routes whose signature holds an AuthenticatedKey guard
RequiresIdentity(route) ==
    \E i \in 1..Len(RouteGuards(route)) : RouteGuards(route)[i] = "AuthenticatedKey"

\* the requests the clients send: route and Authorization header
RequestChoices ==
    { <<"get_tokens", None>>,
      <<"get_tokens", basic_auth_header(<<"ka">>, <<"sa">>)>>,
      <<"get_tokens", basic_auth_header(<<"kb">>, <<"sb">>)>>,
      <<"post_order_dca", basic_auth_header(<<"ka">>, <<"zz">>)>>,
      <<"get_health", None>> }

\* position of the request guard number i of a route, or the handler
GuardPc(route, i) ==
    IF i > Len(RouteGuards(route)) THEN "handler"
    ELSE IF RouteGuards(route)[i] = "GlobalRateLimit" THEN "global" ELSE "auth"

NewRequest ==
    [pc |-> "idle", route |-> "", header |-> None, gi |-> 0,
     admit |-> FALSE,
     g_ord |-> 0, g_now |-> 0, g_res |-> "none", g_info |-> None,
     k_ord |-> 0, k_now |-> 0, k_res |-> "none", k_info |-> None, k_key |-> 0,
     auth |-> "none", auth_key_id |-> None, cache |-> None,
     handler_ran |-> FALSE, status |-> 0, retry_after |-> None,
     rl_headers |-> None, code |-> "", message |-> "", usage |-> "none",
     rid_header |-> None, meta |-> None, x_request_id |-> None,
     log |-> <<>>, auth_steps |-> <<>>, trace |-> <<>>]

\* ------------------------------------------------------------ log records
\* a tracing event of a request; in_span tells whether it was emitted inside
\* the span of the request (span.in_scope, .instrument(span))
Event(message, in_span) == [message |-> message, in_span |-> in_span]

\* the events a request guard emits: tracing::warn!, tracing::error! and
\* tracing::info! called with no span entered
GuardEvents(messages) == [i \in 1..Len(messages) |-> Event(messages[i], FALSE)]

\* the event of the catcher of a status, inside request_span_for(req)
CatcherEvent(status) ==
    CASE status = 401 -> Event("unauthorized (missing or invalid credentials)", TRUE)
      [] status = 429 -> Event("rate limit exceeded", TRUE)
      [] status = 500 -> Event("unhandled internal server error", TRUE)

\* ------------------------------------------------------------ request ids
\* A header value is a sequence of characters; the characters that matter:
\* letters, the blank, TAB (white space and control), BEL (control, not
\* white space), U+00E9 (not ASCII, two bytes) and U+00A0 (white space, not
\* ASCII, two bytes).
REQUEST_ID_MAX_LEN == 128

is_whitespace(c) == c \in {" ", "TAB", "U+00A0"}
is_control(c) == c \in {"TAB", "BEL"}
is_ascii(c) == c \notin {"U+00E9", "U+00A0"}
len_utf8(c) == IF is_ascii(c) THEN 1 ELSE 2

RECURSIVE trim_start(_)
trim_start(v) ==
    IF v # <<>> /\ is_whitespace(Head(v)) THEN trim_start(Tail(v)) ELSE v

RECURSIVE trim_end(_)
trim_end(v) ==
    IF v # <<>> /\ is_whitespace(v[Len(v)])
    THEN trim_end(SubSeq(v, 1, Len(v) - 1)) ELSE v

\* str::trim
trim(v) == trim_end(trim_start(v))

\* str::len, in bytes
str_len(v) ==
    Len(v) + (len_utf8("U+00E9") - 1) * Cardinality({i \in 1..Len(v) : ~is_ascii(v[i])})

\* Uuid::new_v4().to_string(): a fresh id, one per request
Uuid_new_v4(r) == <<"uuid", ToString(r)>>

\* faulty variant of extract_request_id: the value is tested and returned
\* as it came, without value.trim()
extract_request_id_NoTrim(rid_header, r) ==
    IF rid_header = None THEN Uuid_new_v4(r)
    ELSE LET value == Unwrap(rid_header) IN
         IF /\ value # <<>>
            /\ str_len(value) <= REQUEST_ID_MAX_LEN
            /\ \A i \in 1..Len(value) : is_ascii(value[i])
            /\ ~\E i \in 1..Len(value) : is_control(value[i])
         THEN value
         ELSE Uuid_new_v4(r)

\* extract_request_id: the trimmed X-Request-Id of the client when it is
\* not empty, at most 128 bytes, ASCII and free of control characters,
\* a fresh uuid otherwise
extract_request_id(rid_header, r) ==
    IF rid_header = None THEN Uuid_new_v4(r)
    ELSE LET trimmed == trim(Unwrap(rid_header)) IN
         IF /\ trimmed # <<>>
            /\ str_len(trimmed) <= REQUEST_ID_MAX_LEN
            /\ \A i \in 1..Len(trimmed) : is_ascii(trimmed[i])
            /\ ~\E i \in 1..Len(trimmed) : is_control(trimmed[i])
         THEN trimmed
         ELSE Uuid_new_v4(r)

\* fallback_meta: what local_cache yields when on_request stored nothing
fallback_meta == [request_id |-> <<"unknown">>, span |-> None]

\* RequestLogger::on_request: the id is resolved once, recorded in the span
\* of the request and cached as RequestMeta
RequestLogger_on_request(rec, r) ==
    LET request_id == extract_request_id(rec.rid_header, r) IN
    [rec EXCEPT !.meta = Some([request_id |-> request_id, span |-> Some(request_id)]),
                !.log = Append(@, Event("request started", TRUE))]

\* faulty variant of RequestLogger_on_response: the cached meta is not
\* consulted
RequestLogger_on_response_Fallback(rec) == fallback_meta.request_id

\* RequestLogger::on_response: the value of the X-Request-Id header of the
\* response, from req.local_cache(fallback_meta)
RequestLogger_on_response(rec) ==
    (IF rec.meta # None THEN Unwrap(rec.meta) ELSE fallback_meta).request_id

\* ---------------------------------------------------------------- response
\* The body code and Retry-After of the response for a status: the catchers
\* for guard errors, the handler's own responder otherwise.
ErrorCode(status) ==
    CASE status = 401 -> "UNAUTHORIZED"
      [] status = 429 -> "RATE_LIMITED"
      [] status = 500 -> "INTERNAL_ERROR"
      [] OTHER -> ""

\* the message of the body, fixed by the catcher of the status
ErrorMessage(status) ==
    CASE status = 401 -> "Missing or invalid credentials"
      [] status = 429 -> "Too many requests, please try again later"
      [] status = 500 -> "Internal server error"
      [] OTHER -> ""

\* faulty variant of RetryAfter: the 429 responder forgets the header
RetryAfter_Absent(status) == None

\* RateLimitedResponse::respond_to / ApiError::respond_to
RetryAfter(status) == IF status = 429 THEN Some(60) ELSE None

\* faulty variant of RateLimitHeaders: the cached value is kept in one place
\* for the whole server instead of in the request
RateLimitHeaders_Shared(cache) ==
    LET holders == {q \in Reqs : req[q].cache # None}
    IN  IF holders = {} THEN cache
        ELSE req[CHOOSE q \in holders : \A p \in holders : q <= p].cache

\* RateLimitHeadersFairing::on_response: X-RateLimit-{Limit,Remaining,Reset}
\* are set from the request's CachedRateLimitInfo when it holds a value.
RateLimitHeaders(cache) == cache

\* What crate::rocket(pool, rate_limiter) builds: the response fairings it
\* attaches and the error catchers it registers. The builder is not part of
\* the sources at hand (main.rs holds an earlier one without them); the
\* tests that go through it observe the X-RateLimit headers and the
\* Retry-After header of the 429 catcher.
rocket_fairings == {"RateLimitHeadersFairing", "UsageLogger", "RequestLogger"}

rocket_catchers == {401, 429, 500}

\* faulty variant of UsageLogger_on_response: only served requests are
\* recorded
UsageLogger_on_response_OnlyServed(rec, status) ==
    IF rec.auth_key_id # None /\ status < 400 THEN "spawned" ELSE "none"

\* UsageLogger::on_response: nothing without a cached AuthKeyId(Some(id)),
\* otherwise the insert is spawned as a task of its own
UsageLogger_on_response(rec, status) ==
    IF rec.auth_key_id # None THEN "spawned" ELSE "none"

\* The response of a request: catcher or responder, then the response
\* fairings.
Respond(rec, status) ==
    [rec EXCEPT !.pc = "done",
                !.status = status,
                !.code = IF status \in rocket_catchers THEN ErrorCode(status) ELSE "",
                !.message = IF status \in rocket_catchers THEN ErrorMessage(status) ELSE "",
                !.retry_after = IF status \in rocket_catchers
                                THEN RetryAfter(status) ELSE None,
                !.rl_headers = IF "RateLimitHeadersFairing" \in rocket_fairings
                               THEN RateLimitHeaders(rec.cache) ELSE None,
                !.usage = IF "UsageLogger" \in rocket_fairings
                          THEN UsageLogger_on_response(rec, status) ELSE "none",
                !.x_request_id = IF "RequestLogger" \in rocket_fairings
                                 THEN Some(RequestLogger_on_response(rec)) ELSE None,
                !.log = @ \o (IF status \in rocket_catchers
                               THEN <<CatcherEvent(status)>> ELSE <<>>)
                          \o (IF "RequestLogger" \in rocket_fairings
                               THEN <<Event("request completed", rec.meta # None)>>
                               ELSE <<>>)]

\* ----------------------------------------------------------------- limiter
\* faulty variant of prune_window: a fixed bucket, emptied as a whole when
\* its oldest timestamp has expired
prune_window_Reset(window, cutoff) ==
    IF window # <<>> /\ Head(window) < cutoff THEN <<>> ELSE window

\* faulty variant of prune_window: a timestamp exactly one window old is
\* evicted too
RECURSIVE prune_window_Inclusive(_, _)
prune_window_Inclusive(window, cutoff) ==
    IF window # <<>> /\ Head(window) <= cutoff
    THEN prune_window_Inclusive(Tail(window), cutoff) ELSE window

RECURSIVE prune_window(_, _)
prune_window(window, cutoff) ==
    IF window # <<>> /\ Head(window) < cutoff
    THEN prune_window(Tail(window), cutoff)
    ELSE window

\* faulty variant of push_back: the admission is recorded twice, as by a
\* check that is run a second time
push_back_Twice(window, now) == Append(Append(window, now), now)

\* faulty variant of push_back: the admission is not recorded in the window
push_back_Dropped(window, now) == window

\* window.push_back(now)
push_back(window, now) == Append(window, now)

\* faulty variant of UnderLimit: the last place of the window is never given
UnderLimit_Strict(window, rpm) == Len(window) + 1 < rpm

\* faulty variant of UnderLimit: the comparison is <= instead of <
UnderLimit_OffByOne(window, rpm) == Len(window) <= rpm

\* (window.len() as u64) < rpm
UnderLimit(window, rpm) == Len(window) < rpm

\* faulty variant of Disabled: limit 0 is treated as a limit of no requests
Disabled_Never(rpm) == FALSE

\* if self.global_rpm == 0 / if self.per_key_rpm == 0: return Ok((true, None))
Disabled(rpm) == rpm = 0

Max(a, b) == IF a > b THEN a ELSE b

\* SystemTime::now() in unix seconds, read when the clock shows c
now_unix_at(c) == UnixOffset + c

\* Duration::as_secs and the seconds of SystemTime since the epoch: the whole
\* seconds of a time given in ticks, tps ticks to the second
as_secs(tps, ticks) == ticks \div tps

\* faulty variant of compute_reset_at: the wait for the oldest timestamp is
\* left out
compute_reset_at_NoWait(tps, window, now, wall) == as_secs(tps, wall)

\* faulty variant of compute_reset_at: the newest timestamp is used
compute_reset_at_Newest(tps, window, now, wall) ==
    LET now_unix == as_secs(tps, wall) IN
    IF window # <<>>
    THEN now_unix + as_secs(tps, Max(0, (window[Len(window)] + WINDOW_DURATION * tps) - now))
    ELSE now_unix + WINDOW_DURATION

\* compute_reset with the instants in ticks: the seconds of the wall clock
\* plus the whole seconds until the oldest timestamp leaves the window
compute_reset_at(tps, window, now, wall) ==
    LET now_unix == as_secs(tps, wall) IN
    IF window # <<>>
    THEN now_unix + as_secs(tps, Max(0, (Head(window) + WINDOW_DURATION * tps) - now))
    ELSE now_unix + WINDOW_DURATION

\* compute_reset where every instant is a whole second
compute_reset(window, now, now_unix) == compute_reset_at(1, window, now, now_unix)

RateLimitInfo(limit, remaining, reset) ==
    [limit |-> limit, remaining |-> remaining, reset |-> reset]

\* faulty variant of AdmitInfo: remaining is taken before the push
AdmitInfo_BeforePush(rpm, window, now, now_unix) ==
    RateLimitInfo(rpm, rpm - (Len(window) - 1), compute_reset(window, now, now_unix))

\* the admit branch of a check: push, then the quota of the window
AdmitInfo(rpm, window, now, now_unix) ==
    RateLimitInfo(rpm, rpm - Len(window), compute_reset(window, now, now_unix))

\* faulty variant of RejectInfo: a rejection reports the whole limit as
\* remaining
RejectInfo_Full(rpm, window, now, now_unix) ==
    RateLimitInfo(rpm, rpm, compute_reset(window, now, now_unix))

\* the reject branch of a check
RejectInfo(rpm, window, now, now_unix) ==
    RateLimitInfo(rpm, 0, compute_reset(window, now, now_unix))


\* ---------------------------------------------------------- request guards
\* the status the business handler of a route answers with: the token list,
\* todo!() (a panic, which Rocket answers with 500), the health record
HandlerStatus(route) ==
    CASE route = "get_tokens" -> 200
      [] route = "post_order_dca" -> 500
      [] route = "get_health" -> 200

\* The request guard number rec.gi succeeded: Rocket goes on to the next
\* guard of the signature, and after the last one runs the handler and
\* sends its response.
Proceed(rec) ==
    LET pc == GuardPc(rec.route, rec.gi + 1) IN
    IF pc = "handler"
    THEN Respond([rec EXCEPT !.gi = rec.gi + 1, !.handler_ran = TRUE,
                             !.trace = Append(@, "handler")], HandlerStatus(rec.route))
    ELSE [rec EXCEPT !.gi = rec.gi + 1, !.pc = pc]

\* GlobalRateLimit::from_request on the result of check_global
GlobalRateLimit_from_request(rec, res) ==
    IF ~res.ok
    THEN Respond([rec EXCEPT !.g_res = "error",
                             !.log = @ \o GuardEvents(<<"global rate limiter failed">>)], 500)
    ELSE LET cached == IF res.info # None THEN [rec EXCEPT !.cache = res.info] ELSE rec
         IN  IF res.admit
             THEN Proceed([cached EXCEPT !.g_res = "admit", !.g_info = res.info])
             ELSE Respond([cached EXCEPT !.g_res = "reject", !.g_info = res.info,
                             !.log = @ \o GuardEvents(<<"global rate limit exceeded">>)], 429)

\* faulty variant of AuthenticatedKey_from_check: quota info already stored
\* for the request is kept (a set-once request cache)
AuthenticatedKey_from_check_KeepFirst(rec, res) ==
    IF ~res.ok
    THEN Respond([rec EXCEPT !.k_res = "error",
                             !.log = @ \o GuardEvents(<<"per-key rate limiter failed">>)], 500)
    ELSE LET cached == IF res.info # None /\ rec.cache = None
                       THEN [rec EXCEPT !.cache = res.info] ELSE rec
         IN  IF res.admit
             THEN Proceed([cached EXCEPT !.k_res = "admit", !.k_info = res.info])
             ELSE Respond([cached EXCEPT !.k_res = "reject", !.k_info = res.info,
                             !.log = @ \o GuardEvents(<<"per-key rate limit exceeded">>)], 429)

\* faulty variant of AuthenticatedKey_from_check: a limiter error lets the
\* request through
AuthenticatedKey_from_check_FailOpen(rec, res) ==
    IF ~res.ok
    THEN Proceed([rec EXCEPT !.k_res = "error"])
    ELSE LET cached == IF res.info # None THEN [rec EXCEPT !.cache = res.info] ELSE rec
         IN  IF res.admit
             THEN Proceed([cached EXCEPT !.k_res = "admit", !.k_info = res.info])
             ELSE Respond([cached EXCEPT !.k_res = "reject", !.k_info = res.info,
                             !.log = @ \o GuardEvents(<<"per-key rate limit exceeded">>)], 429)

\* the tail of AuthenticatedKey::from_request, on the result of check_per_key
AuthenticatedKey_from_check(rec, res) ==
    IF ~res.ok
    THEN Respond([rec EXCEPT !.k_res = "error",
                             !.log = @ \o GuardEvents(<<"per-key rate limiter failed">>)], 500)
    ELSE LET cached == IF res.info # None THEN [rec EXCEPT !.cache = res.info] ELSE rec
         IN  IF res.admit
             THEN Proceed([cached EXCEPT !.k_res = "admit", !.k_info = res.info])
             ELSE Respond([cached EXCEPT !.k_res = "reject", !.k_info = res.info,
                             !.log = @ \o GuardEvents(<<"per-key rate limit exceeded">>)], 429)

CheckOk(admit, info) == [ok |-> TRUE, admit |-> admit, info |-> info]

\* faulty variant of CheckErr: a poisoned lock is answered by admitting
CheckErr_FailOpen == [ok |-> TRUE, admit |-> TRUE, info |-> None]

\* Err(ApiError::Internal("rate limiter unavailable"))
CheckErr == [ok |-> FALSE, admit |-> FALSE, info |-> None]

\* faulty variant of split_once: the text is split at its last ':'
split_once_Last(text) ==
    IF \E i \in 1..Len(text) : text[i] = ":"
    THEN LET i == CHOOSE i \in 1..Len(text) :
                      text[i] = ":" /\ \A j \in (i + 1)..Len(text) : text[j] # ":"
         IN  Some(<<SubSeq(text, 1, i - 1), SubSeq(text, i + 1, Len(text))>>)
    ELSE None

\* credentials.split_once(':')
split_once(text) ==
    IF \E i \in 1..Len(text) : text[i] = ":"
    THEN LET i == CHOOSE i \in 1..Len(text) :
                      text[i] = ":" /\ \A j \in 1..(i - 1) : text[j] # ":"
         IN  Some(<<SubSeq(text, 1, i - 1), SubSeq(text, i + 1, Len(text))>>)
    ELSE None

\* faulty variant of fetch_optional: the query leaves out AND active = 1
fetch_optional_AnyRow(table, key_id) ==
    LET rows == {row \in table : row.key_id = key_id}
    IN  IF rows = {} THEN None ELSE Some(CHOOSE row \in rows : TRUE)

\* SELECT ... FROM api_keys WHERE key_id = ? AND active = 1
fetch_optional(table, key_id) ==
    LET rows == {row \in table : row.key_id = key_id /\ row.active}
    IN  IF rows = {} THEN None ELSE Some(CHOOSE row \in rows : TRUE)

\* Outcome::Error((Status::Unauthorized, ApiError::Unauthorized(message)))
\* with no event: the message goes with the error value of the outcome,
\* which no handler receives
Rejected(message) ==
    [outcome |-> "unauthorized", status |-> 401, log |-> message, events |-> <<>>, id |-> 0]

\* tracing::warn!(log), then Outcome::Error((Status::Unauthorized, ..))
Unauthorized(log) ==
    [outcome |-> "unauthorized", status |-> 401, log |-> log, events |-> <<log>>, id |-> 0]

\* tracing::error!(log), then Outcome::Error((Status::InternalServerError, ..))
Internal(log) ==
    [outcome |-> "internal", status |-> 500, log |-> log, events |-> <<log>>, id |-> 0]

\* a panic inside a request guard: Rocket answers the request with 500
Panicked(log) ==
    [outcome |-> "panic", status |-> 500, log |-> log, events |-> <<"panic occurred">>,
     id |-> 0]

\* outcome o of the guard, reached after these steps of from_request
After(steps, o) == [steps |-> steps] @@ o

\* AuthenticatedKey::from_request, the Authorization header up to the
\* key_id and the secret
parse_credentials(header) ==
    IF header = None
    THEN After(<<"get_one">>, Rejected("missing Authorization header"))
    ELSE IF basic_prefix(Unwrap(header).scheme) = "panic"
         THEN After(<<"get_one", "scheme">>, Panicked("byte index 6 is not a char boundary"))
    ELSE IF basic_prefix(Unwrap(header).scheme) # "match"
         THEN After(<<"get_one", "scheme">>, Rejected("invalid Authorization scheme"))
    ELSE IF ~Unwrap(header).b64
         THEN After(<<"get_one", "scheme", "decode">>, Rejected("invalid base64 encoding"))
    ELSE IF ~Unwrap(header).utf8
         THEN After(<<"get_one", "scheme", "decode", "from_utf8">>,
                    Rejected("invalid credentials encoding"))
    ELSE LET pair == split_once(Unwrap(header).text) IN
         IF pair = None
         THEN After(<<"get_one", "scheme", "decode", "from_utf8", "split_once">>,
                    Rejected("invalid credentials format"))
         ELSE [outcome |-> "parsed", status |-> 0, log |-> "", events |-> <<>>, id |-> 0,
               steps |-> <<"get_one", "scheme", "decode", "from_utf8", "split_once">>,
               key_id |-> Unwrap(pair)[1], secret |-> Unwrap(pair)[2]]

\* faulty variant of authenticate: the store is queried before the header is
\* looked at
authenticate_LookupFirst(header, table) ==
    LET parsed == parse_credentials(header) IN
    IF parsed.outcome # "parsed"
    THEN [parsed EXCEPT !.steps = <<"fetch_optional">> \o @]
    ELSE LET row == fetch_optional(table, parsed.key_id)
             s1 == <<"fetch_optional">> \o parsed.steps
             s2 == Append(s1, "PasswordHash_new")
             s3 == Append(s2, "verify_password")
         IN  IF row = None THEN After(s1, Unauthorized("API key not found or inactive"))
             ELSE IF ~PasswordHash_new_ok(Unwrap(row).secret_hash)
                  THEN After(s2, Internal("failed to parse stored hash"))
             ELSE IF ~verify_password(parsed.secret, Unwrap(row).secret_hash)
                  THEN After(s3, Unauthorized("invalid secret"))
             ELSE [outcome |-> "ok", status |-> 0, log |-> "authenticated",
                   events |-> <<"authenticated">>, id |-> Unwrap(row).id, steps |-> s3]

\* AuthenticatedKey::from_request up to the per-key check: header, lookup,
\* hash parse, verification
authenticate(header, table) ==
    LET parsed == parse_credentials(header) IN
    IF parsed.outcome # "parsed" THEN parsed
    ELSE LET row == fetch_optional(table, parsed.key_id)
             s1 == Append(parsed.steps, "fetch_optional")
             s2 == Append(s1, "PasswordHash_new")
             s3 == Append(s2, "verify_password")
         IN  IF row = None THEN After(s1, Unauthorized("API key not found or inactive"))
             ELSE IF ~PasswordHash_new_ok(Unwrap(row).secret_hash)
                  THEN After(s2, Internal("failed to parse stored hash"))
             ELSE IF ~verify_password(parsed.secret, Unwrap(row).secret_hash)
                  THEN After(s3, Unauthorized("invalid secret"))
             ELSE [outcome |-> "ok", status |-> 0, log |-> "authenticated",
                   events |-> <<"authenticated">>, id |-> Unwrap(row).id, steps |-> s3]

\* the same when the query of the credential store returns Err
authenticate_query_failed(header) ==
    LET parsed == parse_credentials(header) IN
    IF parsed.outcome # "parsed" THEN parsed
    ELSE After(Append(parsed.steps, "fetch_optional"),
               Internal("database error during auth lookup"))

\* ----------------------------------------------------------------- actions
Init ==
    /\ clock = 0
    /\ global_rpm \in RpmChoices
    /\ per_key_rpm \in RpmChoices
    /\ global_window = <<>>
    /\ per_key_windows = [k \in {} |-> <<>>]
    /\ per_key_check_count = 0
    /\ global_lock = 0
    /\ per_key_lock = 0
    /\ global_poisoned = FALSE
    /\ per_key_poisoned = FALSE
    /\ global_check_count = 0
    /\ api_keys = ApiKeyRows
    /\ req = [r \in Reqs |-> NewRequest]
    /\ calls = <<>>
    /\ usage_logs = {}
    /\ commands = <<>>

\* Request r is received with its route, Authorization and X-Request-Id
\* headers: the request fairings run, then the first guard of the route.
Received(r, route, header, rid_header) ==
    LET rec == [NewRequest EXCEPT !.route = route, !.header = header,
                                  !.rid_header = rid_header] IN
    Proceed(IF "RequestLogger" \in rocket_fairings
            THEN RequestLogger_on_request(rec, r) ELSE rec)

\* A request enters; Rocket runs the route's request guards in the order of
\* the handler's signature.  Request slots are used in increasing order.
Arrive(r) ==
    /\ req[r].pc = "idle"
    /\ IF r = 1 THEN TRUE ELSE req[r - 1].pc # "idle"
    /\ Cardinality({q \in Reqs : req[q].pc \notin {"idle", "done"}}) < MaxInFlight
    /\ \E c \in RequestChoices :
          req' = [req EXCEPT ![r] = Received(r, c[1], c[2], None)]
    /\ UNCHANGED <<clock, limiter_cfg, global_state, per_key_state, api_keys, calls, usage_logs, commands>>

\* faulty variant of GlobalLockFree: the window is used without its lock
GlobalLockFree_NoLock == TRUE

\* self.global_window.lock() can return
GlobalLockFree == global_lock = 0

\* check_global up to the comparison: limit 0, lock, now, prune, compare
CheckGlobalEnter(r) ==
    /\ req[r].pc = "global"
    /\ LET rec == [req[r] EXCEPT !.trace = Append(@, "check_global")] IN
       IF Disabled(global_rpm)
       THEN /\ req' = [req EXCEPT ![r] = GlobalRateLimit_from_request(rec, CheckOk(TRUE, None))]
            /\ UNCHANGED global_state
       ELSE /\ GlobalLockFree
            /\ IF global_poisoned
               THEN /\ req' = [req EXCEPT ![r] = GlobalRateLimit_from_request(rec, CheckErr)]
                    /\ UNCHANGED global_state
               ELSE LET now == clock
                        cutoff == now - WINDOW_DURATION
                        pruned == prune_window(global_window, cutoff)
                    IN  /\ global_lock' = r
                        /\ global_window' = pruned
                        /\ global_check_count' = global_check_count + 1
                        /\ UNCHANGED global_poisoned
                        /\ req' = [req EXCEPT ![r] =
                                     [rec EXCEPT !.pc = "global_crit", !.g_now = now,
                                                 !.g_ord = global_check_count + 1,
                                                 !.admit = UnderLimit(pruned, global_rpm)]]
    /\ UNCHANGED <<clock, limiter_cfg, per_key_state, api_keys, calls, usage_logs, commands>>

\* faulty variant of CheckGlobalLeave: the guard of the global window outlives
\* check_global and stays with the request
CheckGlobalLeave_KeepLock(r) ==
    /\ req[r].pc = "global_crit"
    /\ LET rec == req[r]
           window == IF rec.admit THEN push_back(global_window, rec.g_now) ELSE global_window
           info == IF rec.admit
                   THEN AdmitInfo(global_rpm, window, rec.g_now, now_unix_at(clock))
                   ELSE RejectInfo(global_rpm, window, rec.g_now, now_unix_at(clock))
       IN  /\ global_window' = window
           /\ global_lock' = r
           /\ req' = [req EXCEPT ![r] =
                        GlobalRateLimit_from_request(rec, CheckOk(rec.admit, Some(info)))]
    /\ UNCHANGED <<clock, limiter_cfg, global_poisoned, global_check_count,
                   per_key_state, api_keys, calls, usage_logs, commands>>

\* check_global from the branch taken to the return (the guard is dropped),
\* then GlobalRateLimit::from_request
CheckGlobalLeave(r) ==
    /\ req[r].pc = "global_crit"
    /\ LET rec == req[r]
           window == IF rec.admit THEN push_back(global_window, rec.g_now) ELSE global_window
           info == IF rec.admit
                   THEN AdmitInfo(global_rpm, window, rec.g_now, now_unix_at(clock))
                   ELSE RejectInfo(global_rpm, window, rec.g_now, now_unix_at(clock))
       IN  /\ global_window' = window
           /\ global_lock' = 0
           /\ req' = [req EXCEPT ![r] =
                        GlobalRateLimit_from_request(rec, CheckOk(rec.admit, Some(info)))]
    /\ UNCHANGED <<clock, limiter_cfg, global_poisoned, global_check_count,
                   per_key_state, api_keys, calls, usage_logs, commands>>

\* AuthenticatedKey::from_request up to the per-key check
Authenticate(r) ==
    /\ req[r].pc = "auth"
    /\ LET a == authenticate(req[r].header, api_keys)
           rec == [req[r] EXCEPT !.trace = Append(@, "authenticate"),
                                 !.log = @ \o GuardEvents(a.events),
                                 !.auth_steps = a.steps]
       IN  IF a.outcome = "ok"
           THEN req' = [req EXCEPT ![r] = [rec EXCEPT !.pc = "per_key", !.auth = a.log,
                                                      !.auth_key_id = Some(a.id),
                                                      !.k_key = a.id]]
           ELSE req' = [req EXCEPT ![r] = Respond([rec EXCEPT !.auth = a.log], a.status)]
    /\ UNCHANGED <<clock, limiter_cfg, global_state, per_key_state, api_keys, calls, usage_logs, commands>>

\* AuthenticatedKey::from_request when the query of the store fails
AuthenticateQueryFailed(r) ==
    /\ req[r].pc = "auth"
    /\ LET a == authenticate_query_failed(req[r].header)
           rec == [req[r] EXCEPT !.trace = Append(@, "authenticate"),
                                 !.log = @ \o GuardEvents(a.events),
                                 !.auth_steps = a.steps]
       IN  req' = [req EXCEPT ![r] = Respond([rec EXCEPT !.auth = a.log], a.status)]
    /\ UNCHANGED <<clock, limiter_cfg, global_state, per_key_state, api_keys, calls, usage_logs, commands>>

\* faulty variant of sweep_due: the map is swept on every check
sweep_due_Always(check_count) == TRUE

\* check_count % PER_KEY_CLEANUP_EVERY == 0
sweep_due(check_count) == check_count % PER_KEY_CLEANUP_EVERY = 0

\* self.per_key_windows.lock() can return
PerKeyLockFree == per_key_lock = 0

\* faulty variant of retain: the windows are pruned, the empty ones stay
retain_KeepEmpty(windows, cutoff) ==
    [k \in DOMAIN windows |-> prune_window(windows[k], cutoff)]

\* windows.retain(|_, window| { prune_window(window, cutoff); !window.is_empty() })
retain(windows, cutoff) ==
    [k \in {k \in DOMAIN windows : prune_window(windows[k], cutoff) # <<>>} |->
        prune_window(windows[k], cutoff)]

\* faulty variant of entry_or_default: a key without a window starts with
\* the window of another key
entry_or_default_Shared(windows, key_id) ==
    [k \in DOMAIN windows \cup {key_id} |->
        IF k \in DOMAIN windows THEN windows[k]
        ELSE IF DOMAIN windows = {} THEN <<>>
        ELSE windows[CHOOSE q \in DOMAIN windows : TRUE]]

\* windows.entry(key_id).or_default()
entry_or_default(windows, key_id) ==
    [k \in DOMAIN windows \cup {key_id} |-> IF k \in DOMAIN windows THEN windows[k] ELSE <<>>]

\* check_per_key up to the comparison: limit 0, lock, now, count, sweep,
\* entry, prune, compare
CheckPerKeyEnter(r) ==
    /\ req[r].pc = "per_key"
    /\ LET rec == [req[r] EXCEPT !.trace = Append(@, "check_per_key")]
           key_id == rec.k_key
       IN
       IF Disabled(per_key_rpm)
       THEN /\ req' = [req EXCEPT ![r] = AuthenticatedKey_from_check(rec, CheckOk(TRUE, None))]
            /\ UNCHANGED per_key_state
       ELSE /\ PerKeyLockFree
            /\ IF per_key_poisoned
               THEN /\ req' = [req EXCEPT ![r] = AuthenticatedKey_from_check(rec, CheckErr)]
                    /\ UNCHANGED per_key_state
               ELSE LET now == clock
                        cutoff == now - WINDOW_DURATION
                        check_count == per_key_check_count + 1
                        swept == IF sweep_due(check_count)
                                 THEN retain(per_key_windows, cutoff)
                                 ELSE per_key_windows
                        windows == entry_or_default(swept, key_id)
                        pruned == prune_window(windows[key_id], cutoff)
                    IN  /\ per_key_lock' = r
                        /\ per_key_check_count' = check_count
                        /\ per_key_windows' = [windows EXCEPT ![key_id] = pruned]
                        /\ UNCHANGED per_key_poisoned
                        /\ req' = [req EXCEPT ![r] =
                                     [rec EXCEPT !.pc = "per_key_crit", !.k_now = now,
                                                 !.k_ord = check_count,
                                                 !.admit = UnderLimit(pruned, per_key_rpm)]]
    /\ UNCHANGED <<clock, limiter_cfg, global_state, api_keys, calls, usage_logs, commands>>

\* faulty variant of CheckPerKeyLeave: the reject branch returns with the
\* guard of the per-key map still held
CheckPerKeyLeave_RejectKeepsLock(r) ==
    /\ req[r].pc = "per_key_crit"
    /\ LET rec == req[r]
           key_id == rec.k_key
           old == per_key_windows[key_id]
           window == IF rec.admit THEN push_back(old, rec.k_now) ELSE old
           info == IF rec.admit
                   THEN AdmitInfo(per_key_rpm, window, rec.k_now, now_unix_at(clock))
                   ELSE RejectInfo(per_key_rpm, window, rec.k_now, now_unix_at(clock))
       IN  /\ per_key_windows' = [per_key_windows EXCEPT ![key_id] = window]
           /\ per_key_lock' = IF rec.admit THEN 0 ELSE r
           /\ req' = [req EXCEPT ![r] =
                        AuthenticatedKey_from_check(rec, CheckOk(rec.admit, Some(info)))]
    /\ UNCHANGED <<clock, limiter_cfg, global_state, per_key_poisoned,
                   per_key_check_count, api_keys, calls, usage_logs, commands>>

\* check_per_key from the branch taken to the return, then the tail of
\* AuthenticatedKey::from_request
CheckPerKeyLeave(r) ==
    /\ req[r].pc = "per_key_crit"
    /\ LET rec == req[r]
           key_id == rec.k_key
           old == per_key_windows[key_id]
           window == IF rec.admit THEN push_back(old, rec.k_now) ELSE old
           info == IF rec.admit
                   THEN AdmitInfo(per_key_rpm, window, rec.k_now, now_unix_at(clock))
                   ELSE RejectInfo(per_key_rpm, window, rec.k_now, now_unix_at(clock))
       IN  /\ per_key_windows' = [per_key_windows EXCEPT ![key_id] = window]
           /\ per_key_lock' = 0
           /\ req' = [req EXCEPT ![r] =
                        AuthenticatedKey_from_check(rec, CheckOk(rec.admit, Some(info)))]
    /\ UNCHANGED <<clock, limiter_cfg, global_state, per_key_poisoned,
                   per_key_check_count, api_keys, calls, usage_logs, commands>>

\* Time passes.  The clock starts with the first request and is of no
\* interest once the last one is answered; a tick is far longer than a
\* critical section of the limiter, so none spans one.
Tick ==
    /\ clock + TickStep <= MaxTicks * TickStep
    /\ req[1].pc # "idle"
    /\ \E q \in Reqs : req[q].pc # "done"
    /\ global_lock = 0 /\ per_key_lock = 0
    /\ clock' = clock + TickStep
    /\ UNCHANGED <<limiter_cfg, global_state, per_key_state, api_keys, req, calls, usage_logs, commands>>

\* a thread panics while it holds the global_window guard; the guard is
\* taken by check_global only, and only when the limit is not 0
PoisonGlobalLock ==
    /\ ~Disabled(global_rpm)
    /\ global_lock = 0
    /\ ~global_poisoned
    /\ global_poisoned' = TRUE
    /\ UNCHANGED <<clock, limiter_cfg, global_window, global_lock, global_check_count,
                   per_key_state, api_keys, req, calls, usage_logs, commands>>

\* a thread panics while it holds the per_key_windows guard; the guard is
\* taken by check_per_key only, and only when the limit is not 0
PoisonPerKeyLock ==
    /\ ~Disabled(per_key_rpm)
    /\ per_key_lock = 0
    /\ ~per_key_poisoned
    /\ per_key_poisoned' = TRUE
    /\ UNCHANGED <<clock, limiter_cfg, global_state, per_key_windows, per_key_lock,
                   per_key_check_count, api_keys, req, calls, usage_logs, commands>>

Next ==
    \/ \E r \in Reqs : Arrive(r)
    \/ \E r \in Reqs : CheckGlobalEnter(r)
    \/ \E r \in Reqs : CheckGlobalLeave(r)
    \/ \E r \in Reqs : Authenticate(r)
    \/ \E r \in Reqs : CheckPerKeyEnter(r)
    \/ \E r \in Reqs : CheckPerKeyLeave(r)
    \/ Tick

Spec == Init /\ [][Next]_vars

NextFault ==
    \/ Next
    \/ PoisonGlobalLock
    \/ PoisonPerKeyLock

SpecFault == Init /\ [][NextFault]_vars

\* The same under fair scheduling: a thread inside a check runs on to its
\* return, and a thread waiting for a mutex that is released again and again
\* gets it in the end.
Fairness ==
    \A r \in Reqs :
        /\ SF_vars(CheckGlobalEnter(r))
        /\ WF_vars(CheckGlobalLeave(r))
        /\ SF_vars(CheckPerKeyEnter(r))
        /\ WF_vars(CheckPerKeyLeave(r))

SpecFair == Init /\ [][NextFault]_vars /\ Fairness

\* ------------------------------------------------- the limiter called directly
\* The limiter as its unit tests use it: one thread calls check_global and
\* check_per_key on a RateLimiter::new(rpm, rpm), and time passes between
\* calls.  A call is check_global / check_per_key from entry to return.

\* the keys of the direct calls
DirectKeys == {1, 2, 3}

\* half a window: timestamps are seen at ages 0, 30, 60 (kept), 90 (dropped)
HalfWindow == WINDOW_DURATION \div 2

\* The calls check_per_key(1) made at time 0 before the history starts:
\* none, or as many as bring the next sweep within reach.
PreloadChoices == {0, PER_KEY_CLEANUP_EVERY - 3}

Min(a, b) == IF a < b THEN a ELSE b

\* the window of key 1 after n calls check_per_key(1) at time 0
PreloadWindow(n, rpm) == [i \in 1..Min(n, rpm) |-> 0]

\* the per-key map after these calls
PreloadWindows(n, rpm) ==
    IF n = 0 \/ Disabled(rpm) THEN [k \in {} |-> <<>>] ELSE [k \in {1} |-> PreloadWindow(n, rpm)]

InitLimiter ==
    /\ clock = 0
    /\ global_rpm \in RpmChoices
    /\ per_key_rpm = global_rpm
    /\ global_window = <<>>
    /\ \E n \in PreloadChoices :
          /\ per_key_check_count = IF Disabled(per_key_rpm) THEN 0 ELSE n
          /\ per_key_windows = PreloadWindows(n, per_key_rpm)
    /\ global_lock = 0
    /\ per_key_lock = 0
    /\ global_poisoned = FALSE
    /\ per_key_poisoned = FALSE
    /\ global_check_count = 0
    /\ api_keys = ApiKeyRows
    /\ req = [r \in Reqs |-> NewRequest]
    /\ calls = <<>>
    /\ usage_logs = {}
    /\ commands = <<>>

CallRecord(scope, key_id, now, res) ==
    [scope |-> scope, key |-> key_id, now |-> now, res |-> res]

\* faulty variant of CallCheckGlobal: a rejected check is recorded in the
\* window as well
CallCheckGlobal_CountRejected ==
    /\ Len(calls) < MaxCalls
    /\ IF Disabled(global_rpm)
       THEN /\ calls' = Append(calls, CallRecord("global", 0, clock, CheckOk(TRUE, None)))
            /\ UNCHANGED global_state
       ELSE /\ GlobalLockFree
            /\ ~global_poisoned
            /\ LET now == clock
                   cutoff == now - WINDOW_DURATION
                   pruned == prune_window(global_window, cutoff)
                   admit == UnderLimit(pruned, global_rpm)
                   window == push_back(pruned, now)
                   info == IF admit
                           THEN AdmitInfo(global_rpm, window, now, now_unix_at(clock))
                           ELSE RejectInfo(global_rpm, window, now, now_unix_at(clock))
               IN  /\ global_window' = window
                   /\ global_check_count' = global_check_count + 1
                   /\ calls' = Append(calls,
                                 CallRecord("global", 0, now, CheckOk(admit, Some(info))))
                   /\ UNCHANGED <<global_lock, global_poisoned>>
    /\ UNCHANGED <<clock, limiter_cfg, per_key_state, api_keys, req, usage_logs, commands>>

\* check_global, entry to return
CallCheckGlobal ==
    /\ Len(calls) < MaxCalls
    /\ IF Disabled(global_rpm)
       THEN /\ calls' = Append(calls, CallRecord("global", 0, clock, CheckOk(TRUE, None)))
            /\ UNCHANGED global_state
       ELSE /\ GlobalLockFree
            /\ ~global_poisoned
            /\ LET now == clock
                   cutoff == now - WINDOW_DURATION
                   pruned == prune_window(global_window, cutoff)
                   admit == UnderLimit(pruned, global_rpm)
                   window == IF admit THEN push_back(pruned, now) ELSE pruned
                   info == IF admit
                           THEN AdmitInfo(global_rpm, window, now, now_unix_at(clock))
                           ELSE RejectInfo(global_rpm, window, now, now_unix_at(clock))
               IN  /\ global_window' = window
                   /\ global_check_count' = global_check_count + 1
                   /\ calls' = Append(calls,
                                 CallRecord("global", 0, now, CheckOk(admit, Some(info))))
                   /\ UNCHANGED <<global_lock, global_poisoned>>
    /\ UNCHANGED <<clock, limiter_cfg, per_key_state, api_keys, req, usage_logs, commands>>

\* check_per_key(key_id), entry to return
CallCheckPerKey(key_id) ==
    /\ Len(calls) < MaxCalls
    /\ IF Disabled(per_key_rpm)
       THEN /\ calls' = Append(calls, CallRecord("per_key", key_id, clock, CheckOk(TRUE, None)))
            /\ UNCHANGED per_key_state
       ELSE /\ PerKeyLockFree
            /\ ~per_key_poisoned
            /\ LET now == clock
                   cutoff == now - WINDOW_DURATION
                   check_count == per_key_check_count + 1
                   swept == IF sweep_due(check_count)
                            THEN retain(per_key_windows, cutoff)
                            ELSE per_key_windows
                   windows == entry_or_default(swept, key_id)
                   pruned == prune_window(windows[key_id], cutoff)
                   admit == UnderLimit(pruned, per_key_rpm)
                   window == IF admit THEN push_back(pruned, now) ELSE pruned
                   info == IF admit
                           THEN AdmitInfo(per_key_rpm, window, now, now_unix_at(clock))
                           ELSE RejectInfo(per_key_rpm, window, now, now_unix_at(clock))
               IN  /\ per_key_check_count' = check_count
                   /\ per_key_windows' = [windows EXCEPT ![key_id] = window]
                   /\ calls' = Append(calls,
                                 CallRecord("per_key", key_id, now, CheckOk(admit, Some(info))))
                   /\ UNCHANGED <<per_key_lock, per_key_poisoned>>
    /\ UNCHANGED <<clock, limiter_cfg, global_state, api_keys, req, usage_logs, commands>>

\* time passes between two calls
TickLimiter ==
    /\ clock + HalfWindow <= MaxHalfTicks * HalfWindow
    /\ clock' = clock + HalfWindow
    /\ UNCHANGED <<limiter_cfg, global_state, per_key_state, api_keys, req, calls, usage_logs, commands>>

NextLimiter ==
    \/ CallCheckGlobal
    \/ \E key_id \in DirectKeys : CallCheckPerKey(key_id)
    \/ TickLimiter

SpecLimiter == InitLimiter /\ [][NextLimiter]_vars

\* ------------------------------------------------------- the guard on its own
\* Requests to a route whose only guard is AuthenticatedKey, with every kind
\* of Authorization header; the store can fail and the per-key mutex can be
\* poisoned.
AuthHeaders ==
    { None,
      Some([scheme |-> SchemeOther, b64 |-> TRUE, utf8 |-> TRUE, text |-> <<"ka", ":", "sa">>]),
      Some([scheme |-> SchemeBare, b64 |-> TRUE, utf8 |-> TRUE, text |-> <<>>]),
      Some([scheme |-> SchemeSplitChar, b64 |-> TRUE, utf8 |-> TRUE, text |-> <<"ka", ":", "sa">>]),
      Some([scheme |-> SchemeBasic, b64 |-> FALSE, utf8 |-> FALSE, text |-> <<>>]),
      Some([scheme |-> SchemeBasic, b64 |-> TRUE, utf8 |-> FALSE, text |-> <<>>]),
      Some([scheme |-> SchemeBasic, b64 |-> TRUE, utf8 |-> TRUE, text |-> <<"ka", "sa">>]),
      basic_auth_header(<<"ka">>, <<"sa">>),
      basic_auth_header(<<"ka">>, <<"zz">>),
      basic_auth_header(<<"kx">>, <<"sa">>),
      basic_auth_header(<<"kc">>, <<"sc">>),
      basic_auth_header(<<"kd">>, <<"sd">>) }

ArriveAuth(r) ==
    /\ req[r].pc = "idle"
    /\ IF r = 1 THEN TRUE ELSE req[r - 1].pc # "idle"
    /\ Cardinality({q \in Reqs : req[q].pc \notin {"idle", "done"}}) < MaxInFlight
    /\ \E h \in AuthHeaders :
          req' = [req EXCEPT ![r] = Received(r, "post_order_dca", h, None)]
    /\ UNCHANGED <<clock, limiter_cfg, global_state, per_key_state, api_keys, calls, usage_logs, commands>>

NextAuth ==
    \/ \E r \in Reqs : ArriveAuth(r)
    \/ \E r \in Reqs : Authenticate(r)
    \/ \E r \in Reqs : AuthenticateQueryFailed(r)
    \/ \E r \in Reqs : CheckPerKeyEnter(r)
    \/ \E r \in Reqs : CheckPerKeyLeave(r)
    \/ PoisonPerKeyLock

SpecAuth == Init /\ [][NextAuth]_vars

\* ------------------------------------------------- compute_reset on its own
\* compute_reset applied to the windows a check can hand it, with the
\* instants in ticks of a fraction of a second: the window is pruned (nothing
\* older than 60 s, nothing after now) and ordered.
WindowTicks == WINDOW_DURATION * TicksPerSecond

\* the instants the check is made at
ResetNows == {0, 1, WindowTicks, WindowTicks + 1}

\* the pruned windows of at most two timestamps at instant now
PrunedWindows(now) ==
    LET inside == Max(0, now - WindowTicks)..now IN
    {<<>>} \cup {<<o>> : o \in inside} \cup {<<o, o>> : o \in inside}
           \cup {<<o, now>> : o \in inside}

InitReset ==
    /\ clock \in ResetNows
    /\ global_rpm = 2
    /\ per_key_rpm = 2
    /\ global_window \in PrunedWindows(clock)
    /\ per_key_windows = [k \in {} |-> <<>>]
    /\ per_key_check_count = 0
    /\ global_lock = 0
    /\ per_key_lock = 0
    /\ global_poisoned = FALSE
    /\ per_key_poisoned = FALSE
    /\ global_check_count = 0
    /\ api_keys = ApiKeyRows
    /\ req = [r \in Reqs |-> NewRequest]
    /\ calls = <<>>
    /\ usage_logs = {}
    /\ commands = <<>>

\* compute_reset(&window, now); the wall clock is read at any fraction of a
\* second
CallComputeReset ==
    /\ calls = <<>>
    /\ \E phase \in 0..(TicksPerSecond - 1) :
          LET wall == UnixOffset * TicksPerSecond + clock + phase IN
          calls' = Append(calls, CallRecord("reset", 0, clock,
                      [window |-> global_window, wall |-> wall,
                       reset |-> compute_reset_at(TicksPerSecond, global_window, clock, wall)]))
    /\ UNCHANGED <<clock, limiter_cfg, global_state, per_key_state, api_keys, req,
                   usage_logs, commands>>

NextReset == CallComputeReset

SpecReset == InitReset /\ [][NextReset]_vars

\* ------------------------------------------------------------ keys commands
\* faulty variant of update_active_0: the rows are removed
update_active_0_Removed(table, key_id) ==
    {row \in table : row.key_id # key_id}

\* UPDATE api_keys SET active = 0 WHERE key_id = ?
update_active_0(table, key_id) ==
    {IF row.key_id = key_id THEN [row EXCEPT !.active = FALSE] ELSE row : row \in table}

\* DELETE FROM api_keys WHERE key_id = ?
delete_from(table, key_id) == {row \in table : row.key_id # key_id}

\* result.rows_affected() of either statement
rows_affected(table, key_id) == Cardinality({row \in table : row.key_id = key_id})

\* the key ids given to the commands: two keys of the table and one that
\* is not in it
CommandKeyIds == {<<"ka">>, <<"kb">>, <<"kx">>}

\* revoke_key: Err("API key .. not found") when no row was affected
revoke_key(key_id) ==
    /\ Len(commands) < MaxCommands
    /\ api_keys' = update_active_0(api_keys, key_id)
    /\ commands' = Append(commands, [command |-> "revoke", key_id |-> key_id,
                                      ok |-> rows_affected(api_keys, key_id) # 0])
    /\ UNCHANGED <<clock, limiter_cfg, global_state, per_key_state, req, calls, usage_logs>>

\* delete_key: Err("API key .. not found") when no row was affected
delete_key(key_id) ==
    /\ Len(commands) < MaxCommands
    /\ api_keys' = delete_from(api_keys, key_id)
    /\ commands' = Append(commands, [command |-> "delete", key_id |-> key_id,
                                      ok |-> rows_affected(api_keys, key_id) # 0])
    /\ UNCHANGED <<clock, limiter_cfg, global_state, per_key_state, req, calls, usage_logs>>

\* requests with the right and a wrong secret of the keys the commands name
KeyHeaders ==
    { basic_auth_header(<<"ka">>, <<"sa">>),
      basic_auth_header(<<"kb">>, <<"sb">>),
      basic_auth_header(<<"ka">>, <<"zz">>) }

ArriveKeyed(r) ==
    /\ req[r].pc = "idle"
    /\ IF r = 1 THEN TRUE ELSE req[r - 1].pc # "idle"
    /\ Cardinality({q \in Reqs : req[q].pc \notin {"idle", "done"}}) < MaxInFlight
    /\ \E h \in KeyHeaders :
          req' = [req EXCEPT ![r] = Received(r, "post_order_dca", h, None)]
    /\ UNCHANGED <<clock, limiter_cfg, global_state, per_key_state, api_keys, calls, usage_logs, commands>>

NextKeys ==
    \/ \E r \in Reqs : ArriveKeyed(r)
    \/ \E r \in Reqs : Authenticate(r)
    \/ \E r \in Reqs : CheckPerKeyEnter(r)
    \/ \E r \in Reqs : CheckPerKeyLeave(r)
    \/ \E key_id \in CommandKeyIds : revoke_key(key_id)
    \/ \E key_id \in CommandKeyIds : delete_key(key_id)

SpecKeys == Init /\ [][NextKeys]_vars

\* ------------------------------------------------ credentials with colons
\* Requests whose Authorization header is Basic, valid base64 and valid
\* UTF-8, the decoded text being any text of at most MaxTextLen pieces out of
\* a key word, a secret word and ':'.  The store holds a key whose secret has
\* a ':' in it and a row whose key_id has one.
TextTokens == {"k", "s", ":"}

CredentialTexts == UNION {[1..n -> TextTokens] : n \in 0..MaxTextLen}

ColonKeyRows ==
    { [id |-> 1, key_id |-> <<"k">>, secret_hash |-> hash_secret(<<"s", ":">>), active |-> TRUE],
      [id |-> 2, key_id |-> <<"k", ":">>, secret_hash |-> hash_secret(<<"s">>),
       active |-> TRUE],
      [id |-> 3, key_id |-> <<"s">>, secret_hash |-> hash_secret(<<"k">>), active |-> TRUE] }

InitSplit ==
    /\ clock = 0
    /\ global_rpm = 0
    /\ per_key_rpm \in RpmChoices
    /\ global_window = <<>>
    /\ per_key_windows = [k \in {} |-> <<>>]
    /\ per_key_check_count = 0
    /\ global_lock = 0
    /\ per_key_lock = 0
    /\ global_poisoned = FALSE
    /\ per_key_poisoned = FALSE
    /\ global_check_count = 0
    /\ api_keys = ColonKeyRows
    /\ req = [r \in Reqs |-> NewRequest]
    /\ calls = <<>>
    /\ usage_logs = {}
    /\ commands = <<>>

ArriveSplit(r) ==
    /\ req[r].pc = "idle"
    /\ IF r = 1 THEN TRUE ELSE req[r - 1].pc # "idle"
    /\ Cardinality({q \in Reqs : req[q].pc \notin {"idle", "done"}}) < MaxInFlight
    /\ \E text \in CredentialTexts :
          req' = [req EXCEPT ![r] =
                    Received(r, "post_order_dca",
                             Some([scheme |-> SchemeBasic, b64 |-> TRUE, utf8 |-> TRUE,
                                   text |-> text]), None)]
    /\ UNCHANGED <<clock, limiter_cfg, global_state, per_key_state, api_keys, calls, usage_logs, commands>>

NextSplit ==
    \/ \E r \in Reqs : ArriveSplit(r)
    \/ \E r \in Reqs : Authenticate(r)
    \/ \E r \in Reqs : CheckPerKeyEnter(r)
    \/ \E r \in Reqs : CheckPerKeyLeave(r)

SpecSplit == InitSplit /\ [][NextSplit]_vars

\* ---------------------------------------------------- requests with an id
\* X-Request-Id values of a client: a plain id, one padded with white space,
\* a blank one, one with a character outside ASCII, one with a control
\* character, one of exactly 128 bytes and one of 129
RequestIdHeaders ==
    { None,
      Some(<<"a", "b">>),
      Some(<<" ", "a", "b", "TAB">>),
      Some(<<" ", " ">>),
      Some(<<"U+00A0", "a", "b">>),
      Some(<<"a", "U+00E9">>),
      Some(<<"a", "BEL", "b">>),
      Some([i \in 1..REQUEST_ID_MAX_LEN |-> "a"]),
      Some([i \in 1..(REQUEST_ID_MAX_LEN + 1) |-> "a"]) }

\* requests of the three routes with and without credentials
TracedChoices ==
    { <<"get_tokens", None>>,
      <<"get_tokens", basic_auth_header(<<"ka">>, <<"sa">>)>>,
      <<"post_order_dca", basic_auth_header(<<"ka">>, <<"sa">>)>>,
      <<"get_health", None>> }

ArriveTraced(r) ==
    /\ req[r].pc = "idle"
    /\ IF r = 1 THEN TRUE ELSE req[r - 1].pc # "idle"
    /\ Cardinality({q \in Reqs : req[q].pc \notin {"idle", "done"}}) < MaxInFlight
    /\ \E c \in TracedChoices, rid \in RequestIdHeaders :
          req' = [req EXCEPT ![r] = Received(r, c[1], c[2], rid)]
    /\ UNCHANGED <<clock, limiter_cfg, global_state, per_key_state, api_keys, calls, usage_logs, commands>>

NextTraced ==
    \/ \E r \in Reqs : ArriveTraced(r)
    \/ \E r \in Reqs : CheckGlobalEnter(r)
    \/ \E r \in Reqs : CheckGlobalLeave(r)
    \/ \E r \in Reqs : Authenticate(r)
    \/ \E r \in Reqs : CheckPerKeyEnter(r)
    \/ \E r \in Reqs : CheckPerKeyLeave(r)

SpecTraced == Init /\ [][NextTraced]_vars

\* ------------------------------------------------------------ usage records
\* the row the spawned task inserts: key, route and status of the response
usage_row(r, rec) ==
    [req |-> r, api_key_id |-> Unwrap(rec.auth_key_id), path |-> rec.route,
     status_code |-> rec.status]

\* faulty variant of usage_insert_failed: the failure is turned into the
\* answer of the request
usage_insert_failed_Surfaced(rec) ==
    [rec EXCEPT !.usage = "failed", !.status = 500, !.code = ErrorCode(500),
                !.message = ErrorMessage(500)]

\* the spawned insert returns Err: tracing::error!("failed to insert usage log")
usage_insert_failed(rec) == [rec EXCEPT !.usage = "failed"]

\* INSERT INTO usage_logs: the table gets one more row, told from the rows
\* it holds by its rowid
insert_into(table, row) == table \cup {[rowid |-> Cardinality(table) + 1] @@ row}

\* faulty variant of UsageInsert: the task is left to run again
UsageInsert_Again(r) ==
    /\ req[r].usage = "spawned"
    /\ usage_logs' = insert_into(usage_logs, usage_row(r, req[r]))
    /\ UNCHANGED <<clock, limiter_cfg, global_state, per_key_state, api_keys, calls,
                   commands, req>>

\* the spawned task runs and the INSERT INTO usage_logs succeeds
UsageInsert(r) ==
    /\ req[r].usage = "spawned"
    /\ usage_logs' = insert_into(usage_logs, usage_row(r, req[r]))
    /\ req' = [req EXCEPT ![r].usage = "inserted"]
    /\ UNCHANGED <<clock, limiter_cfg, global_state, per_key_state, api_keys, calls,
                   commands>>

\* the spawned task runs and the INSERT fails
UsageInsertFailed(r) ==
    /\ req[r].usage = "spawned"
    /\ req' = [req EXCEPT ![r] = usage_insert_failed(req[r])]
    /\ UNCHANGED <<clock, limiter_cfg, global_state, per_key_state, api_keys, calls,
                   usage_logs, commands>>

NextUsage ==
    \/ \E r \in Reqs : Arrive(r)
    \/ \E r \in Reqs : CheckGlobalEnter(r)
    \/ \E r \in Reqs : CheckGlobalLeave(r)
    \/ \E r \in Reqs : Authenticate(r)
    \/ \E r \in Reqs : CheckPerKeyEnter(r)
    \/ \E r \in Reqs : CheckPerKeyLeave(r)
    \/ \E r \in Reqs : UsageInsert(r)
    \/ \E r \in Reqs : UsageInsertFailed(r)

SpecUsage == Init /\ [][NextUsage]_vars

TypeOK ==
    /\ clock \in 0..(MaxTicks * TickStep)
    /\ global_lock \in 0..MaxRequests
    /\ per_key_lock \in 0..MaxRequests
    /\ \A r \in Reqs : req[r].pc \in {"idle", "global", "global_crit", "auth", "per_key",
                                      "per_key_crit", "done"}
    /\ global_lock # 0 => req[global_lock].pc = "global_crit"
    /\ per_key_lock # 0 => req[per_key_lock].pc = "per_key_crit"
    /\ \A r \in Reqs : req[r].usage \in {"none", "spawned", "inserted", "failed"}
    /\ \A row \in usage_logs : row.req \in Reqs

\* ------------------------------------------------------------- vocabulary
Done(r) == req[r].pc = "done"

\* the request was received and routed
Arrived(r) == req[r].pc # "idle"

\* a received request whose route has the AuthenticatedKey guard
Protected(r) == Arrived(r) /\ RequiresIdentity(req[r].route)

\* the first request guard of the route is GlobalRateLimit
HasGlobalGuard(route) ==
    RouteGuards(route) # <<>> /\ RouteGuards(route)[1] = "GlobalRateLimit"

InTrace(r, step) == \E i \in 1..Len(req[r].trace) : req[r].trace[i] = step

\* check_global of request r took the lock and returned a decision
GlobalChecked(r) == global_rpm > 0 /\ req[r].g_res \in {"admit", "reject"}

\* check_per_key of request r took the lock and returned a decision
PerKeyChecked(r) == per_key_rpm > 0 /\ req[r].k_res \in {"admit", "reject"}

\* the checks that took the scope's lock before the check of r did
GlobalPrior(r) == {q \in Reqs : req[q].g_ord > 0 /\ req[q].g_ord < req[r].g_ord}

PerKeyPrior(r) ==
    {q \in Reqs : /\ req[q].k_ord > 0
                  /\ req[q].k_ord < req[r].k_ord
                  /\ req[q].k_key = req[r].k_key}

\* every earlier check on the scope was made at most one window before r's
GlobalOneWindow(r) ==
    \A q \in GlobalPrior(r) : req[q].g_now >= req[r].g_now - WINDOW_DURATION

PerKeyOneWindow(r) ==
    \A q \in PerKeyPrior(r) : req[q].k_now >= req[r].k_now - WINDOW_DURATION

\* the request reached authentication and was turned away by it
AuthFailed(r) == InTrace(r, "authenticate") /\ req[r].auth_key_id = None

\* the header does not authenticate against the key table
NoValidCredentials(header) == authenticate(header, ApiKeyRows).outcome # "ok"

\* ------------------------------------------------------------------ claims

\* C1: under any interleaving of concurrent checks on one scope (the global
\* scope, or one key) with limit L > 0, the admitted checks whose timestamps
\* lie in one interval of 60 seconds never number more than L, and no two
\* checks are inside the prune / compare / push section of a scope at once.
C1_NoOverAdmission ==
    /\ Cardinality({r \in Reqs : req[r].pc = "global_crit"}) <= 1
    /\ Cardinality({r \in Reqs : req[r].pc = "per_key_crit"}) <= 1
    /\ global_rpm > 0 =>
         \A r0 \in Reqs : req[r0].g_res = "admit" =>
            Cardinality({r \in Reqs : /\ req[r].g_res = "admit"
                                      /\ req[r].g_now >= req[r0].g_now
                                      /\ req[r].g_now <= req[r0].g_now + WINDOW_DURATION})
               <= global_rpm
    /\ per_key_rpm > 0 =>
         \A r0 \in Reqs : req[r0].k_res = "admit" =>
            Cardinality({r \in Reqs : /\ req[r].k_res = "admit"
                                      /\ req[r].k_key = req[r0].k_key
                                      /\ req[r].k_now >= req[r0].k_now
                                      /\ req[r].k_now <= req[r0].k_now + WINDOW_DURATION})
               <= per_key_rpm

\* two requests in flight at the same instant, the scope full: one was
\* admitted and is still being served, the other was rejected
C1_Witness ==
    \E r1, r2 \in Reqs :
        /\ req[r1].g_res = "admit" /\ ~Done(r1)
        /\ req[r2].g_res = "reject"
        /\ req[r1].g_now = req[r2].g_now

\* C2: on a scope with limit L > 0 whose window starts empty, as long as all
\* checks so far lie within one window, a check is admitted exactly when
\* fewer than L checks preceded it: the first L are admitted, the next is
\* rejected.
C2_FirstLAdmittedNextRejected ==
    /\ \A r \in Reqs : GlobalChecked(r) /\ GlobalOneWindow(r) =>
          (req[r].g_res = "admit" <=> Cardinality(GlobalPrior(r)) < global_rpm)
    /\ \A r \in Reqs : PerKeyChecked(r) /\ PerKeyOneWindow(r) =>
          (req[r].k_res = "admit" <=> Cardinality(PerKeyPrior(r)) < per_key_rpm)

\* the check number L+1 of a window was made and was rejected
C2_Witness ==
    \E r \in Reqs :
        /\ GlobalChecked(r) /\ GlobalOneWindow(r)
        /\ Cardinality(GlobalPrior(r)) = global_rpm
        /\ req[r].g_res = "reject"

\* C3: on every route that requires identity the pipeline runs global check,
\* authentication, per-key check in this order: authentication is attempted
\* only after the global check admitted the request, the per-key check only
\* after authentication succeeded.
C3_PipelineOrder ==
    \A r \in Reqs : Protected(r) =>
        /\ InTrace(r, "authenticate") =>
              /\ req[r].trace[1] = "check_global"
              /\ req[r].g_res = "admit"
        /\ InTrace(r, "check_per_key") =>
              /\ InTrace(r, "authenticate")
              /\ req[r].auth_key_id # None

\* C4: on a protected route guarded by the global limit G > 0, while all
\* requests so far lie in one window and none carried valid credentials,
\* each of the first G is answered 401 and the next one 429 whatever
\* credentials it carries: the failed authentications used up the quota.
C4_FailedAuthConsumesGlobalQuota ==
    \A r \in Reqs :
        ( /\ Done(r)
          /\ HasGlobalGuard(req[r].route) /\ RequiresIdentity(req[r].route)
          /\ GlobalChecked(r) /\ GlobalOneWindow(r)
          /\ \A q \in GlobalPrior(r) : NoValidCredentials(req[q].header) )
        => IF Cardinality(GlobalPrior(r)) < global_rpm
           THEN NoValidCredentials(req[r].header) => req[r].status = 401
           ELSE req[r].status = 429

\* G requests failed authentication with 401, and the next request of the
\* window, which carries valid credentials, was answered 429
C4_Witness ==
    \E r \in Reqs :
        /\ Done(r) /\ HasGlobalGuard(req[r].route) /\ GlobalChecked(r) /\ GlobalOneWindow(r)
        /\ ~NoValidCredentials(req[r].header)
        /\ Cardinality(GlobalPrior(r)) = global_rpm
        /\ \A q \in GlobalPrior(r) : NoValidCredentials(req[q].header) /\ req[q].status = 401
        /\ req[r].status = 429

\* C5: a request rejected by the global check is answered 429 with
\* Retry-After: 60 and the X-RateLimit headers of the QuotaInfo that check
\* returned: Limit the global limit, Remaining 0, and its Reset.
C5_GlobalRejectResponse ==
    \A r \in Reqs : req[r].g_res = "reject" =>
        /\ Done(r)
        /\ req[r].status = 429
        /\ req[r].retry_after = Some(60)
        /\ req[r].g_info # None
        /\ req[r].rl_headers = req[r].g_info
        /\ Unwrap(req[r].rl_headers).limit = global_rpm
        /\ Unwrap(req[r].rl_headers).remaining = 0

C5_Witness == \E r \in Reqs : Done(r) /\ req[r].g_res = "reject"

\* C6: every response to a failed authentication is 401 and carries no
\* X-RateLimit header, also when the global check admitted the request first.
C6_AuthFailureNoRateLimitHeaders ==
    \A r \in Reqs : Done(r) /\ AuthFailed(r) =>
        /\ req[r].status = 401
        /\ req[r].rl_headers = None

\* C7: a request rejected by the per-key check is answered 429 with
\* Retry-After: 60 and the X-RateLimit headers of the per-key QuotaInfo
\* (Limit the per-key limit, Remaining 0), whatever global QuotaInfo was
\* stored for the request before.
C7_PerKeyRejectResponse ==
    \A r \in Reqs : req[r].k_res = "reject" =>
        /\ Done(r)
        /\ req[r].status = 429
        /\ req[r].retry_after = Some(60)
        /\ req[r].k_info # None
        /\ req[r].rl_headers = req[r].k_info
        /\ Unwrap(req[r].rl_headers).limit = per_key_rpm
        /\ Unwrap(req[r].rl_headers).remaining = 0

\* a per-key rejection of a request that held a different global QuotaInfo
C7_Witness ==
    \E r \in Reqs :
        /\ Done(r) /\ req[r].k_res = "reject"
        /\ req[r].g_info # None /\ req[r].g_info # req[r].k_info

\* C8: the response of an admitted authenticated request carries the most
\* specific QuotaInfo computed for it. With per-key limiting on that is the
\* per-key one: Limit is the per-key limit and Remaining is the limit minus
\* the admitted requests of the same key that are still in the window, the
\* request itself included; other keys do not count. With per-key limiting
\* off (limit 0) no per-key QuotaInfo is computed and the headers are those
\* of the global QuotaInfo, if the route computed one.
C8_AdmittedCarriesPerKeyQuota ==
    \A r \in Reqs : (Done(r) /\ req[r].k_res = "admit") =>
        IF per_key_rpm > 0
        THEN /\ req[r].k_info # None
             /\ req[r].rl_headers = req[r].k_info
             /\ Unwrap(req[r].rl_headers).limit = per_key_rpm
             /\ Unwrap(req[r].rl_headers).remaining =
                   per_key_rpm -
                   Cardinality({q \in Reqs : /\ req[q].k_res = "admit"
                                             /\ req[q].k_key = req[r].k_key
                                             /\ req[q].k_ord <= req[r].k_ord
                                             /\ req[q].k_now >= req[r].k_now - WINDOW_DURATION})
        ELSE /\ req[r].k_info = None
             /\ req[r].rl_headers = req[r].g_info

\* per-key limit 1: requests of two different keys were both admitted, each
\* with Remaining 0, each holding a different global QuotaInfo
C8_Witness ==
    \E r1, r2 \in Reqs :
        /\ per_key_rpm = 1
        /\ Done(r1) /\ Done(r2)
        /\ req[r1].k_res = "admit" /\ req[r2].k_res = "admit"
        /\ req[r1].k_key # req[r2].k_key
        /\ req[r1].g_info # None /\ req[r1].g_info # req[r1].k_info
        /\ Unwrap(req[r1].rl_headers).remaining = 0
        /\ Unwrap(req[r2].rl_headers).remaining = 0

\* C9: a request to a route that requires no identity goes through the
\* global check and nothing else: rejected with 429 when the global limit is
\* used up, otherwise admitted with one slot of the global window taken.
C9_OpenRouteGloballyLimited ==
    \A r \in Reqs : (Done(r) /\ ~RequiresIdentity(req[r].route)) =>
        /\ InTrace(r, "check_global")
        /\ ~InTrace(r, "authenticate") /\ ~InTrace(r, "check_per_key")
        /\ \/ req[r].g_res = "reject" /\ req[r].status = 429
           \/ req[r].g_res = "admit" /\ req[r].handler_ran

\* C10: the handler of a protected route runs for a request only if its
\* authentication succeeded and the per-key check made right after it
\* admitted the request; it does not run after an authentication failure, a
\* per-key rejection or a limiter error.
C10_HandlerOnlyAfterAdmission ==
    \A r \in Reqs : Protected(r) =>
        /\ req[r].handler_ran =>
              /\ req[r].auth_key_id # None
              /\ req[r].k_res = "admit"
              /\ Len(req[r].trace) >= 3
              /\ SubSeq(req[r].trace, Len(req[r].trace) - 2, Len(req[r].trace)) =
                    <<"authenticate", "check_per_key", "handler">>
        /\ (AuthFailed(r) \/ req[r].k_res \in {"reject", "error"} \/ req[r].g_res = "error")
              => ~req[r].handler_ran

\* one protected request reached its handler, another was stopped by a
\* per-key limiter error
C10_Witness ==
    \E r1, r2 \in Reqs :
        /\ Protected(r1) /\ req[r1].handler_ran
        /\ Done(r2) /\ req[r2].k_res = "error" /\ req[r2].status = 500 /\ ~req[r2].handler_ran

\* C11: a check on a scope whose limit is 0 is always admitted and returns
\* no QuotaInfo, whatever the number of checks, their interleaving and the
\* state of the locks; it records nothing in the window of the scope.
C11_ZeroLimitAlwaysAdmits ==
    /\ global_rpm = 0 =>
          /\ global_window = <<>>
          /\ \A r \in Reqs : InTrace(r, "check_global") =>
                 req[r].g_res = "admit" /\ req[r].g_info = None
    /\ per_key_rpm = 0 =>
          /\ DOMAIN per_key_windows = {}
          /\ \A r \in Reqs : InTrace(r, "check_per_key") =>
                 req[r].k_res = "admit" /\ req[r].k_info = None

\* both limits 0: every request of the run passed both checks, two of them
\* with the same key
C11_Witness ==
    /\ global_rpm = 0 /\ per_key_rpm = 0
    /\ \A r \in Reqs : /\ Done(r)
                       /\ req[r].g_res = "admit" /\ req[r].k_res = "admit"
                       /\ req[r].k_key = req[1].k_key
                       /\ req[r].rl_headers = None

\* ------------------------------------------------ claims on the direct calls
CallIdx == 1..Len(calls)

PerKeyCalls == {i \in CallIdx : calls[i].scope = "per_key"}

\* the number of calls check_per_key(1) made before the history starts
Preload == IF Disabled(per_key_rpm) THEN 0 ELSE per_key_check_count - Cardinality(PerKeyCalls)

\* The window a limiter that serves one key only holds for that key after
\* the first i calls of the history: the calls on other keys are left out.
RECURSIVE OwnWindow(_, _)
OwnWindow(key_id, i) ==
    IF i = 0
    THEN (IF key_id = 1 THEN PreloadWindow(Preload, per_key_rpm) ELSE <<>>)
    ELSE LET c == calls[i]
             w == OwnWindow(key_id, i - 1)
         IN  IF c.scope = "per_key" /\ c.key = key_id
             THEN LET pruned == prune_window(w, c.now - WINDOW_DURATION)
                  IN  IF UnderLimit(pruned, per_key_rpm) THEN push_back(pruned, c.now)
                      ELSE pruned
             ELSE w

\* what call i returns when the calls on the other keys have not happened
OwnResult(i) ==
    LET c == calls[i]
        pruned == prune_window(OwnWindow(c.key, i - 1), c.now - WINDOW_DURATION)
    IN  IF UnderLimit(pruned, per_key_rpm)
        THEN CheckOk(TRUE, Some(AdmitInfo(per_key_rpm, push_back(pruned, c.now), c.now,
                                          now_unix_at(c.now))))
        ELSE CheckOk(FALSE, Some(RejectInfo(per_key_rpm, pruned, c.now, now_unix_at(c.now))))

\* C12: per-key windows are independent: every check on a key returns the
\* decision and the QuotaInfo (remaining, reset) it would return had the
\* checks on all other keys not happened, also when those checks exhausted
\* the quota of their keys.
C12_PerKeyWindowsIndependent ==
    ~Disabled(per_key_rpm) => \A i \in PerKeyCalls : calls[i].res = OwnResult(i)

\* key A is exhausted (a check on it was rejected), then the first check on
\* another key B is admitted with the full quota less one
C12_Witness ==
    \E i, j \in PerKeyCalls :
        /\ i < j /\ calls[i].key # calls[j].key
        /\ ~calls[i].res.admit
        /\ calls[j].res.admit
        /\ \A m \in PerKeyCalls : m < j => calls[m].key # calls[j].key
        /\ calls[j].key # 1
        /\ Unwrap(calls[j].res.info).remaining = per_key_rpm - 1

\* the limit of the scope of a call
ScopeLimit(c) == IF c.scope = "global" THEN global_rpm ELSE per_key_rpm

\* the admitted earlier checks of the scope of call i whose timestamps are at
\* most one window older than call i
StillCounting(i) ==
    {j \in CallIdx : /\ j < i
                     /\ calls[j].scope = calls[i].scope /\ calls[j].key = calls[i].key
                     /\ calls[j].res.admit
                     /\ calls[j].now >= calls[i].now - WINDOW_DURATION}

\* the same for the timestamps from before the history (key 1, time 0)
StillCountingPreload(i) ==
    IF calls[i].scope = "per_key" /\ calls[i].key = 1 /\ 0 >= calls[i].now - WINDOW_DURATION
    THEN Min(Preload, per_key_rpm) ELSE 0

\* C13: the window slides: a check is admitted exactly when fewer than L
\* admitted checks of its scope are at most 60 seconds older than it.  A
\* scope that rejected a check admits again once a timestamp of its full
\* window is more than 60 seconds old; the timestamps still inside the
\* window keep counting.
C13_WindowSlides ==
    \A i \in CallIdx : ~Disabled(ScopeLimit(calls[i])) =>
        (calls[i].res.admit <=>
            Cardinality(StillCounting(i)) + StillCountingPreload(i) < ScopeLimit(calls[i]))

\* a scope admitted, rejected, and admitted again after the oldest timestamp
\* expired while a younger one was still counting
C13_Witness ==
    \E i, j, k \in CallIdx :
        /\ i < j /\ j < k
        /\ calls[i].scope = calls[j].scope /\ calls[i].key = calls[j].key
        /\ calls[j].scope = calls[k].scope /\ calls[j].key = calls[k].key
        /\ calls[i].res.admit /\ ~calls[j].res.admit /\ calls[k].res.admit
        /\ calls[k].now - calls[i].now > WINDOW_DURATION
        /\ StillCounting(k) # {}
        /\ Unwrap(calls[k].res.info).remaining = 0

\* the step is a call of check_per_key whose number is a multiple of
\* PER_KEY_CLEANUP_EVERY
SweepCall ==
    /\ per_key_check_count' # per_key_check_count
    /\ per_key_check_count' % PER_KEY_CLEANUP_EVERY = 0

\* C15: as per-key checks keep arriving, every key whose window holds only
\* expired timestamps is removed from the map, at the latest by the next
\* check whose number is a multiple of 1024; that pass leaves to every other
\* key exactly its timestamps that are still in the window, so every later
\* check on such a key sees the window it would have seen without the pass.
C15_StaleScopesRemoved ==
    [][SweepCall =>
        LET cutoff == clock - WINDOW_DURATION
            called == calls'[Len(calls')].key
        IN  \A k \in DOMAIN per_key_windows \ {called} :
               IF prune_window(per_key_windows[k], cutoff) = <<>>
               THEN k \notin DOMAIN per_key_windows'
               ELSE /\ k \in DOMAIN per_key_windows'
                    /\ \A later \in cutoff..(MaxHalfTicks * HalfWindow) :
                          prune_window(per_key_windows'[k], later) =
                          prune_window(per_key_windows[k], later)
    ]_vars

\* check number 1024 was made: the expired key 1 is gone, another key, which
\* was not the one checked, kept its timestamp
C15_Witness ==
    /\ per_key_check_count = PER_KEY_CLEANUP_EVERY
    /\ calls # <<>>
    /\ 1 \notin DOMAIN per_key_windows
    /\ \E k \in DOMAIN per_key_windows :
          /\ k # calls[Len(calls)].key
          /\ per_key_windows[k] # <<>>

\* ------------------------------------------------------ claims on the guards
\* C14: once the mutex of a scope is poisoned, every check on that scope
\* returns the internal error (the request is answered 500 and no handler
\* runs): no check is admitted or rejected, the window of the scope is not
\* modified, and no check waits, because the mutex is never held again.
C14_PoisonedLockFailsClosed ==
    /\ [](global_poisoned => global_lock = 0)
    /\ [](per_key_poisoned => per_key_lock = 0)
    /\ [][global_poisoned =>
            /\ global_window' = global_window
            /\ \A r \in Reqs : (req[r].g_res = "none" /\ req'[r].g_res # "none") =>
                   /\ req'[r].g_res = "error"
                   /\ req'[r].pc = "done" /\ req'[r].status = 500
                   /\ ~req'[r].handler_ran]_vars
    /\ [][per_key_poisoned =>
            /\ per_key_windows' = per_key_windows
            /\ \A r \in Reqs : (req[r].k_res = "none" /\ req'[r].k_res # "none") =>
                   /\ req'[r].k_res = "error"
                   /\ req'[r].pc = "done" /\ req'[r].status = 500
                   /\ ~req'[r].handler_ran]_vars

\* the global mutex was poisoned with a timestamp in the window; a later
\* check_global got the error
C14_Witness ==
    /\ global_poisoned
    /\ global_window # <<>>
    /\ \E r, q \in Reqs :
          /\ req[q].g_res = "admit"
          /\ Done(r) /\ req[r].g_res = "error" /\ req[r].status = 500

\* ---------------------------------------------- claims on authentication
\* what the caller sees of the answer to request r
Response(r) ==
    [status |-> req[r].status, code |-> req[r].code, message |-> req[r].message,
     retry_after |-> req[r].retry_after, rl_headers |-> req[r].rl_headers]

\* the header is well formed: Basic, base64 of UTF-8 text with a ':'
WellFormed(header) ==
    /\ header # None
    /\ Unwrap(header).scheme = SchemeBasic
    /\ Unwrap(header).b64 /\ Unwrap(header).utf8
    /\ \E i \in 1..Len(Unwrap(header).text) : Unwrap(header).text[i] = ":"

KeyIdOf(header) == Unwrap(split_once(Unwrap(header).text))[1]
SecretOf(header) == Unwrap(split_once(Unwrap(header).text))[2]
RowsOf(header) == {row \in ApiKeyRows : row.key_id = KeyIdOf(header)}

CorrectPair(header) ==
    WellFormed(header) /\
    \E row \in RowsOf(header) : row.active /\ row.secret_hash = hash_secret(SecretOf(header))

WrongSecret(header) ==
    WellFormed(header) /\
    \E row \in RowsOf(header) :
        row.active /\ row.secret_hash.phc /\ row.secret_hash # hash_secret(SecretOf(header))

UnknownKey(header) == WellFormed(header) /\ RowsOf(header) = {}

InactiveKey(header) ==
    WellFormed(header) /\ RowsOf(header) # {} /\ \A row \in RowsOf(header) : ~row.active

InvalidCredentials(header) == WrongSecret(header) \/ UnknownKey(header) \/ InactiveKey(header)

\* the request was answered by the guard after the store failed
QueryFailed(r) == req[r].auth = "database error during auth lookup"

\* the request has been through authentication
Authenticated(r) == Arrived(r) /\ InTrace(r, "authenticate")

\* C16: with the store answering, a correct key_id:secret pair of an active
\* key authenticates, and a wrong secret, an unknown key_id and an inactive
\* key are all answered 401 UNAUTHORIZED with the one generic message; the
\* answers to any two such requests are equal in status, body and headers,
\* so the response does not tell the three cases apart.
C16_InvalidCredentialsIndistinguishable ==
    /\ \A r \in Reqs : (Authenticated(r) /\ ~QueryFailed(r)) =>
          /\ CorrectPair(req[r].header) => req[r].auth_key_id # None
          /\ InvalidCredentials(req[r].header) =>
                /\ req[r].auth_key_id = None
                /\ Response(r) = [status |-> 401, code |-> "UNAUTHORIZED",
                                   message |-> "Missing or invalid credentials",
                                   retry_after |-> None, rl_headers |-> None]
    /\ \A r1, r2 \in Reqs :
          ( /\ Authenticated(r1) /\ Authenticated(r2)
            /\ InvalidCredentials(req[r1].header) /\ InvalidCredentials(req[r2].header)
            /\ QueryFailed(r1) = QueryFailed(r2) )
          => Response(r1) = Response(r2)

\* an inactive key with its right secret and an active key with a wrong
\* secret were both answered
C16_Witness ==
    \E r1, r2 \in Reqs :
        /\ Done(r1) /\ Done(r2)
        /\ ~QueryFailed(r1) /\ ~QueryFailed(r2)
        /\ InactiveKey(req[r1].header) /\ WrongSecret(req[r2].header)
        /\ req[r1].status = 401 /\ req[r2].status = 401
        /\ req[r1].auth # req[r2].auth

\* absent, or not of the form Basic base64(utf8 with ':')
Malformed(header) == ~WellFormed(header)

\* C17: every absent or malformed Authorization header (no header, scheme
\* not Basic, not base64, not UTF-8, no ':') is answered 401 UNAUTHORIZED,
\* never 500; the guard answers 500 only after a failure of the credential
\* store, an unparseable stored hash or a limiter lock failure.
C17_MalformedIs401 ==
    \A r \in Reqs : (Done(r) /\ Authenticated(r)) =>
        /\ Malformed(req[r].header) =>
              req[r].status = 401 /\ req[r].code = "UNAUTHORIZED"
        /\ (req[r].status = 500 /\ ~req[r].handler_ran) =>
              \/ QueryFailed(r)
              \/ req[r].auth = "failed to parse stored hash"
              \/ req[r].k_res = "error"

\* ------------------------------------------------- claims on usage records
\* the request reached a resolved identity: the guard cached AuthKeyId(Some)
IdentityResolved(r) == req[r].auth_key_id # None

\* the rows of usage_logs that belong to request r
UsageRows(r) == {row \in usage_logs : row.req = r}

\* C18: a usage record is written for a request exactly when the request
\* reached a resolved identity: the write is issued for every answered
\* request that authenticated, a per-key 429 included, and for no request of
\* an unauthenticated route, with failed authentication or rejected by the
\* global limiter; a row of usage_logs carries the key, route and status of
\* its request.
C18_UsageRecordIffIdentity ==
    /\ \A r \in Reqs : Done(r) =>
          /\ (req[r].usage # "none") <=> IdentityResolved(r)
          /\ req[r].k_res = "reject" => req[r].usage # "none"
          /\ ( \/ ~RequiresIdentity(req[r].route)
               \/ AuthFailed(r)
               \/ req[r].g_res = "reject" ) => req[r].usage = "none"
          /\ (req[r].usage = "inserted") <=> (UsageRows(r) # {})
    /\ \A r \in Reqs : ~Done(r) => req[r].usage = "none" /\ UsageRows(r) = {}
    /\ \A row \in usage_logs :
          /\ IdentityResolved(row.req)
          /\ row = [rowid |-> row.rowid] @@ usage_row(row.req, req[row.req])

\* a request rejected by the per-key limiter has its row, with status 429,
\* next to the row of the request admitted before it
C18_Witness ==
    \E r1, r2 \in Reqs :
        /\ Done(r1) /\ req[r1].k_res = "reject"
        /\ \E row \in usage_logs : row.req = r1 /\ row.status_code = 429
        /\ Done(r2) /\ req[r2].k_res = "admit"
        /\ \E row \in usage_logs : row.req = r2 /\ row.status_code = 200

\* C19: the usage write is decoupled from the response: the response is
\* complete while the write is still pending, and neither the success nor
\* the failure of the write changes the status, headers or body of the
\* response.
C19_UsageWriteDecoupled ==
    [][ \A r \in Reqs : Done(r) =>
            /\ Done(r)'
            /\ Response(r)' = Response(r)
            /\ req[r].x_request_id' = req[r].x_request_id ]_vars

\* a response was complete with its write pending, and the write has failed
\* since
C19_Witness ==
    \E r1, r2 \in Reqs :
        /\ Done(r1) /\ req[r1].usage = "spawned"
        /\ Done(r2) /\ req[r2].usage = "failed" /\ req[r2].status = 200

\* ---------------------------------------------------- claims on request ids
\* the id the span of request r was opened with
SpanRequestId(r) == Unwrap(req[r].meta).span

\* C20: every response carries an X-Request-Id header, and its value is the
\* correlation id resolved when the request entered (the id recorded in the
\* request's logging span), whatever the outcome: served, 401, 429 or 500.
C20_ResponseCarriesRequestId ==
    \A r \in Reqs :
        /\ Arrived(r) =>
              /\ req[r].meta # None
              /\ Unwrap(req[r].meta).request_id = extract_request_id(req[r].rid_header, r)
              /\ SpanRequestId(r) = Some(Unwrap(req[r].meta).request_id)
        /\ Done(r) =>
              /\ req[r].x_request_id # None
              /\ req[r].x_request_id = SpanRequestId(r)
              /\ req[r].status \in {200, 401, 429, 500}

\* a request answered 429 carries the trimmed id of its client, and one
\* answered 500 the id generated for it
C20_Witness ==
    \E r1, r2 \in Reqs :
        /\ Done(r1) /\ req[r1].status = 429
        /\ req[r1].rid_header = Some(<<" ", "a", "b", "TAB">>)
        /\ req[r1].x_request_id = Some(<<"a", "b">>)
        /\ Done(r2) /\ req[r2].status = 500
        /\ req[r2].rid_header = Some(<<"a", "BEL", "b">>)
        /\ req[r2].x_request_id = Some(Uuid_new_v4(r2))

\* the id request r was given when it entered
ResolvedId(r) == Unwrap(req[r].meta).request_id

\* not empty, ASCII, free of control characters and at most 128 bytes
ValidRequestId(v) ==
    /\ Len(v) > 0
    /\ \A i \in 1..Len(v) : v[i] \notin {"U+00E9", "U+00A0"}
    /\ \A i \in 1..Len(v) : v[i] \notin {"TAB", "BEL"}
    /\ str_len(v) <= REQUEST_ID_MAX_LEN

\* the value without the white space at its two ends
Stripped(v) ==
    LET inner == {i \in 1..Len(v) : v[i] \notin {" ", "TAB", "U+00A0"}} IN
    IF inner = {} THEN <<>>
    ELSE SubSeq(v, CHOOSE i \in inner : \A j \in inner : i <= j,
                   CHOOSE i \in inner : \A j \in inner : i >= j)

\* C21 as stated: the resolved id is the value of the caller exactly when
\* that value is present, not empty, ASCII, free of control characters and
\* at most 128 bytes; otherwise it is a freshly generated id.
C21_CallerIdKeptIffValid ==
    \A r \in Reqs : Arrived(r) =>
        IF req[r].rid_header # None /\ ValidRequestId(Unwrap(req[r].rid_header))
        THEN ResolvedId(r) = Unwrap(req[r].rid_header)
        ELSE ResolvedId(r) = Uuid_new_v4(r)

\* C21 amended: the resolved id is the value of the caller with the white
\* space at its ends removed, exactly when that stripped value is not
\* empty, ASCII, free of control characters and at most 128 bytes; in every
\* other case the value is discarded and a freshly generated id is used.
C21_StrippedCallerIdKeptIffValid ==
    \A r \in Reqs : Arrived(r) =>
        IF req[r].rid_header # None /\ ValidRequestId(Stripped(Unwrap(req[r].rid_header)))
        THEN ResolvedId(r) = Stripped(Unwrap(req[r].rid_header))
        ELSE ResolvedId(r) = Uuid_new_v4(r)

\* a value padded with white space outside ASCII was kept without its
\* padding, and a value of 129 bytes was replaced
C21_Witness ==
    \E r1, r2 \in Reqs :
        /\ Arrived(r1) /\ req[r1].rid_header = Some(<<"U+00A0", "a", "b">>)
        /\ ResolvedId(r1) = <<"a", "b">>
        /\ Arrived(r2) /\ req[r2].rid_header # None
        /\ Len(Unwrap(req[r2].rid_header)) = REQUEST_ID_MAX_LEN + 1
        /\ ResolvedId(r2) = Uuid_new_v4(r2)

\* ------------------------------------------------ claims on the guard's steps
\* the class of authentication failure a header belongs to
FailureClass(header) ==
    IF header = None THEN "missing header"
    ELSE IF Unwrap(header).scheme # SchemeBasic THEN "bad scheme"
    ELSE IF ~Unwrap(header).b64 THEN "malformed base64"
    ELSE IF ~WellFormed(header) THEN "malformed key_id:secret format"
    ELSE IF UnknownKey(header) \/ InactiveKey(header) THEN "unknown or inactive key"
    ELSE IF WrongSecret(header) THEN "wrong secret"
    ELSE "none"

\* the messages logged for request r inside the span of the request
ScopedMessages(r) ==
    {req[r].log[i].message : i \in {i \in 1..Len(req[r].log) : req[r].log[i].in_span}}

\* C22: two requests answered 401 by authentication whose failures belong to
\* different classes (missing header, bad scheme, malformed base64, malformed
\* key_id:secret, unknown or inactive key, wrong secret) have log records,
\* emitted inside the request's tracing span, that tell them apart.
C22_AuthFailuresDistinguishablyLogged ==
    \A r1, r2 \in Reqs :
        ( /\ Done(r1) /\ AuthFailed(r1) /\ req[r1].status = 401
          /\ Done(r2) /\ AuthFailed(r2) /\ req[r2].status = 401
          /\ FailureClass(req[r1].header) # FailureClass(req[r2].header) )
        => ScopedMessages(r1) # ScopedMessages(r2)

\* ------------------------------------------------------- claims on the keys
\* key_id was revoked by a command that succeeded
Revoked(key_id) ==
    \E i \in 1..Len(commands) :
        commands[i].command = "revoke" /\ commands[i].key_id = key_id /\ commands[i].ok

\* this step is a keys command; its record is the last of commands'
CommandStep == Len(commands') = Len(commands) + 1
LastCommand == commands'[Len(commands')]

Ids(table) == {row.id : row \in table}
RowsFor(table, key_id) == {row \in table : row.key_id = key_id}

\* C23: revoking a key leaves its row in the table with active = false and
\* the other rows as they were; from then on the key stays inactive and every
\* authentication with its key_id and correct secret is answered 401;
\* revoking or deleting a key_id that has no row returns an error and leaves
\* the table unchanged.
C23_RevokeDisablesKey ==
    /\ [][ (CommandStep /\ LastCommand.command = "revoke"
              /\ RowsFor(api_keys, LastCommand.key_id) # {}) =>
                /\ LastCommand.ok
                /\ Ids(api_keys') = Ids(api_keys)
                /\ \A row \in api_keys :
                      IF row.key_id = LastCommand.key_id
                      THEN [row EXCEPT !.active = FALSE] \in api_keys'
                      ELSE row \in api_keys' ]_vars
    /\ [][ (CommandStep /\ RowsFor(api_keys, LastCommand.key_id) = {}) =>
                ~LastCommand.ok /\ api_keys' = api_keys ]_vars
    /\ [](\A row \in api_keys : Revoked(row.key_id) => ~row.active)
    /\ [][ \A r \in Reqs :
              ( /\ req[r].pc = "auth" /\ req'[r].pc # "auth"
                /\ CorrectPair(req[r].header)
                /\ Revoked(KeyIdOf(req[r].header)) )
              => req'[r].pc = "done" /\ req'[r].status = 401
                 /\ req'[r].auth_key_id = None ]_vars

\* a key was revoked, its row is still there, a request with its right
\* secret was answered 401 after that, and a command on a key_id without a
\* row failed
C23_Witness ==
    /\ Revoked(<<"ka">>)
    /\ RowsFor(api_keys, <<"ka">>) # {}
    /\ \E r \in Reqs :
          /\ Done(r) /\ req[r].header = basic_auth_header(<<"ka">>, <<"sa">>)
          /\ req[r].status = 401
    /\ \E i \in 1..Len(commands) : commands[i].key_id = <<"kx">> /\ ~commands[i].ok

\* ---------------------------------------------------- claims on the windows
\* this step is a direct call of the limiter; its record is the last of calls'
CallStep == Len(calls') = Len(calls) + 1
LastCall == calls'[Len(calls')]

\* the window of the scope of the call, before and after the call
WindowBefore ==
    IF LastCall.scope = "global" THEN global_window
    ELSE IF LastCall.key \in DOMAIN per_key_windows THEN per_key_windows[LastCall.key]
    ELSE <<>>
WindowAfter ==
    IF LastCall.scope = "global" THEN global_window' ELSE per_key_windows'[LastCall.key]

NonDecreasing(w) == \A i, j \in 1..Len(w) : i <= j => w[i] <= w[j]

\* C24: after a check pruned the window of its scope, the timestamps of the
\* window are in non-decreasing order and all lie in [now - 60s, now], now
\* being the instant the check read; of the timestamps the window held, those
\* at most 60 seconds old (one exactly 60 seconds old included) are all
\* still there and the older ones are gone.  Windows are ordered and hold no
\* timestamp of the future in every state.
C24_WindowOrderedAndInInterval ==
    /\ [][ (CallStep /\ ~Disabled(ScopeLimit(LastCall))) =>
              /\ NonDecreasing(WindowAfter)
              /\ \A i \in 1..Len(WindowAfter) :
                    /\ LastCall.now - WINDOW_DURATION <= WindowAfter[i]
                    /\ WindowAfter[i] <= LastCall.now
              /\ Len(WindowAfter) =
                    Cardinality({i \in 1..Len(WindowBefore) :
                                    WindowBefore[i] >= LastCall.now - WINDOW_DURATION})
                    + (IF LastCall.res.admit THEN 1 ELSE 0) ]_vars
    /\ [](\A w \in {global_window} \cup {per_key_windows[k] : k \in DOMAIN per_key_windows} :
              NonDecreasing(w) /\ \A i \in 1..Len(w) : w[i] <= clock)

\* a check made 60 seconds after the oldest timestamp was rejected, the
\* timestamp still counting, and a later check evicted it and kept the
\* younger one
C24_Witness ==
    /\ global_window = <<HalfWindow, 3 * HalfWindow>>
    /\ \E i \in CallIdx :
          /\ calls[i].scope = "global" /\ calls[i].now = WINDOW_DURATION
          /\ ~calls[i].res.admit

\* the QuotaInfo the call returned
LastInfo == Unwrap(LastCall.res.info)

\* C25: the QuotaInfo of a check with limit L > 0 has limit = L; when the
\* check is admitted, remaining = L minus the size of the window after the
\* push, a value between 0 and L - 1; when it is rejected, remaining = 0.
C25_QuotaInfoRemaining ==
    [][ (CallStep /\ ~Disabled(ScopeLimit(LastCall))) =>
          /\ LastCall.res.ok /\ LastCall.res.info # None
          /\ LastInfo.limit = ScopeLimit(LastCall)
          /\ IF LastCall.res.admit
             THEN /\ LastInfo.remaining = ScopeLimit(LastCall) - Len(WindowAfter)
                  /\ WindowAfter[Len(WindowAfter)] = LastCall.now
                  /\ Len(WindowAfter) = Len(WindowBefore) + 1
                       - Cardinality({i \in 1..Len(WindowBefore) :
                                        WindowBefore[i] < LastCall.now - WINDOW_DURATION})
                  /\ LastInfo.remaining >= 0
                  /\ LastInfo.remaining <= ScopeLimit(LastCall) - 1
             ELSE LastInfo.remaining = 0 ]_vars

\* a scope with limit 2 answered remaining 1, then remaining 0, then
\* rejected with remaining 0
C25_Witness ==
    \E i, j, k \in CallIdx :
        /\ i < j /\ j < k
        /\ calls[i].scope = "global" /\ calls[j].scope = "global" /\ calls[k].scope = "global"
        /\ global_rpm = 2
        /\ calls[i].res.admit /\ Unwrap(calls[i].res.info).remaining = 1
        /\ calls[j].res.admit /\ Unwrap(calls[j].res.info).remaining = 0
        /\ ~calls[k].res.admit /\ Unwrap(calls[k].res.info).remaining = 0

\* -------------------------------------------- claims on the per-key charge
\* the requests whose per-key check took the lock
Charged == {r \in Reqs : req[r].k_ord > 0}

\* the per-key state is untouched by the step
PerKeyUntouched ==
    /\ per_key_windows' = per_key_windows
    /\ per_key_check_count' = per_key_check_count

\* C26: a failed authentication never touches the per-key limiter: a request
\* rejected at any step of authentication, a wrong secret for an active key
\* included, creates no per-key window and adds no timestamp; the windows
\* hold exactly the admitted checks of the requests that presented the right
\* secret of an active key, so the quota of a key is unchanged by failed
\* attempts against it.
C26_FailedAuthLeavesPerKeyState ==
    /\ [](\A r \in Reqs : (Arrived(r) /\ ~CorrectPair(req[r].header)) =>
              /\ r \notin Charged
              /\ req[r].k_res = "none"
              /\ req[r].pc \notin {"per_key", "per_key_crit"})
    /\ [](/\ per_key_check_count = Cardinality(Charged)
           /\ DOMAIN per_key_windows = {req[r].k_key : r \in Charged}
           /\ \A k \in DOMAIN per_key_windows :
                 Len(per_key_windows[k]) =
                    Cardinality({r \in Charged : req[r].k_key = k /\ req[r].k_res = "admit"}))
    /\ [][ \A r \in Reqs :
              (req[r].pc = "auth" /\ req'[r].pc = "done") => PerKeyUntouched ]_vars

\* key ka was charged once, by the request with its right secret; the
\* request with a wrong secret for ka was answered 401
C26_Witness ==
    \E r1, r2 \in Reqs :
        /\ Done(r1) /\ req[r1].header = basic_auth_header(<<"ka">>, <<"sa">>)
        /\ req[r1].k_res = "admit"
        /\ Done(r2) /\ req[r2].header = basic_auth_header(<<"ka">>, <<"zz">>)
        /\ req[r2].status = 401
        /\ per_key_rpm = 2 /\ Len(per_key_windows[1]) = 1

\* ------------------------------------------- claims on the order of the steps
\* the steps of authentication in the order the specification states them
StatedOrder ==
    <<"get_one", "scheme", "decode", "from_utf8", "split_once", "fetch_optional",
      "PasswordHash_new", "verify_password">>

\* request r ran this step of authentication
RanStep(r, step) ==
    \E i \in 1..Len(req[r].auth_steps) : req[r].auth_steps[i] = step

\* the key table holds an active row for the key_id of the header
ActiveRow(header) == \E row \in RowsOf(header) : row.active

\* C27: the steps of authentication run in the stated order and each can
\* reject: the credential store is queried only after the header was
\* present, used the Basic scheme, decoded as base64 and as UTF-8 and held a
\* ':'; the stored hash is parsed only after an active row was found; the
\* secret is verified only after the hash parsed.  A request failing an
\* earlier step causes no store lookup and no verification.
C27_AuthStepsInOrder ==
    \A r \in Reqs : Authenticated(r) =>
        /\ req[r].auth_steps = SubSeq(StatedOrder, 1, Len(req[r].auth_steps))
        /\ RanStep(r, "fetch_optional") => WellFormed(req[r].header)
        /\ RanStep(r, "PasswordHash_new") =>
              /\ WellFormed(req[r].header) /\ ActiveRow(req[r].header)
              /\ ~QueryFailed(r)
        /\ RanStep(r, "verify_password") =>
              /\ WellFormed(req[r].header) /\ ActiveRow(req[r].header)
              /\ \A row \in RowsOf(req[r].header) : row.active => row.secret_hash.phc
        /\ Malformed(req[r].header) =>
              /\ ~RanStep(r, "fetch_optional")
              /\ ~RanStep(r, "PasswordHash_new")
              /\ ~RanStep(r, "verify_password")
              /\ req[r].auth_key_id = None
        /\ (WellFormed(req[r].header) /\ ~ActiveRow(req[r].header)) =>
              ~RanStep(r, "PasswordHash_new") /\ ~RanStep(r, "verify_password")
        /\ req[r].auth_key_id # None => req[r].auth_steps = StatedOrder

\* a request with bad base64 stopped at the decoding, and a request with a
\* wrong secret went through all the steps
C27_Witness ==
    \E r1, r2 \in Reqs :
        /\ Done(r1) /\ req[r1].header # None /\ ~Unwrap(req[r1].header).b64
        /\ req[r1].auth_steps = <<"get_one", "scheme", "decode">>
        /\ Done(r2) /\ WrongSecret(req[r2].header)
        /\ req[r2].auth_steps = StatedOrder /\ req[r2].status = 401

\* ------------------------------------------------------ claims on the sweep
\* this step is a per-key check that took the lock with a limit above 0
PerKeyCallStep == CallStep /\ LastCall.scope = "per_key" /\ ~Disabled(per_key_rpm)

\* the window holds a timestamp that is not older than 60 s at the check
InWindow(w, now) == \E i \in 1..Len(w) : w[i] >= now - WINDOW_DURATION

\* C28: the sweep of the per-key map runs exactly on the per-key checks whose
\* ordinal, counted over all keys and over the checks that took the lock
\* with a limit above 0, is a multiple of 1024.  On such a check every scope
\* whose window holds no timestamp of the last 60 s is dropped, no scope
\* holding one is dropped, and right after the check no scope of the map has
\* an empty window; on every other check no scope is removed.  A check with
\* limit 0 is not counted and leaves the map alone.
C28_SweepEvery1024th ==
    /\ [][ PerKeyCallStep =>
              /\ per_key_check_count' = per_key_check_count + 1
              /\ LastCall.key \in DOMAIN per_key_windows'
              /\ IF per_key_check_count' % PER_KEY_CLEANUP_EVERY = 0
                 THEN /\ \A k \in DOMAIN per_key_windows \ {LastCall.key} :
                            (k \in DOMAIN per_key_windows')
                               <=> InWindow(per_key_windows[k], LastCall.now)
                      /\ \A k \in DOMAIN per_key_windows' : per_key_windows'[k] # <<>>
                 ELSE /\ DOMAIN per_key_windows \subseteq DOMAIN per_key_windows'
                      /\ \A k \in DOMAIN per_key_windows \ {LastCall.key} :
                            per_key_windows'[k] = per_key_windows[k] ]_vars
    /\ [][ (CallStep /\ ~PerKeyCallStep) =>
              /\ per_key_check_count' = per_key_check_count
              /\ per_key_windows' = per_key_windows ]_vars

\* an expired scope outlived a check that was not the 1024th and was gone
\* after the 1024th, which kept a scope still in its window
C28_Witness ==
    \E i, j \in CallIdx :
        /\ i < j /\ j = Len(calls)
        /\ calls[i].scope = "per_key" /\ calls[j].scope = "per_key"
        /\ calls[i].key = 2 /\ calls[j].key = 3
        /\ calls[i].now > WINDOW_DURATION
        /\ per_key_check_count = PER_KEY_CLEANUP_EVERY
        /\ DOMAIN per_key_windows = {2, 3}

\* ------------------------------------------------------ claims on the reset
\* the applications of compute_reset recorded so far
ResetCalls == {i \in CallIdx : calls[i].scope = "reset"}

\* the ticks until the oldest timestamp of the window is 60 s old
UntilOldestLeaves(c) == (Head(c.res.window) + WindowTicks) - c.now

\* C29: the reset a check reports is the wall-clock time now, in seconds,
\* plus the seconds that remain until the oldest timestamp of the window is
\* 60 seconds old (oldest + 60s - now on the monotonic clock, never
\* negative); it lies between now and now + 60 s, and it is now + 60 s by
\* default only for an empty window.  Both terms are whole seconds, so the
\* value is below the exact sum by less than two seconds.
C29_ResetIsNowPlusRemaining ==
    \A i \in ResetCalls :
        LET c == calls[i]
            now_unix == c.res.wall \div TicksPerSecond
        IN  /\ now_unix <= c.res.reset
            /\ c.res.reset <= now_unix + WINDOW_DURATION
            /\ IF c.res.window = <<>>
               THEN c.res.reset = now_unix + WINDOW_DURATION
               ELSE /\ UntilOldestLeaves(c) >= 0
                    /\ c.res.reset = now_unix + (UntilOldestLeaves(c) \div TicksPerSecond)
                    /\ c.res.reset * TicksPerSecond <= c.res.wall + UntilOldestLeaves(c)
                    /\ c.res.wall + UntilOldestLeaves(c) < (c.res.reset + 2) * TicksPerSecond

\* a window whose oldest timestamp is exactly 60 s old gives reset = now, and
\* its newest timestamp is younger
C29_Witness ==
    \E i \in ResetCalls :
        /\ Len(calls[i].res.window) = 2
        /\ calls[i].now = WindowTicks + 1
        /\ Head(calls[i].res.window) = 1
        /\ calls[i].res.window[2] = calls[i].now
        /\ calls[i].res.reset = calls[i].res.wall \div TicksPerSecond

\* ------------------------------------------------ claims on under-admission
\* the requests whose check of the scope returned a decision
GlobalChecks == {r \in Reqs : GlobalChecked(r)}
PerKeyChecks(k) == {r \in Reqs : PerKeyChecked(r) /\ req[r].k_key = k}

\* the checks were all made within one window of 60 s
GlobalWithinWindow ==
    \A q, r \in GlobalChecks : req[q].g_now - req[r].g_now <= WINDOW_DURATION
PerKeyWithinWindow(k) ==
    \A q, r \in PerKeyChecks(k) : req[q].k_now - req[r].k_now <= WINDOW_DURATION

\* C30: the limiter does not under-admit under concurrency: of N checks made
\* by concurrent requests on one scope with limit L > 0 whose window starts
\* empty, all within one window, exactly min(N, L) are admitted; this holds
\* for the global scope and for every key, whatever the interleaving with
\* the checks on other keys.
C30_ExactlyMinAdmitted ==
    /\ (global_rpm > 0 /\ GlobalWithinWindow) =>
          Cardinality({r \in GlobalChecks : req[r].g_res = "admit"})
             = Min(Cardinality(GlobalChecks), global_rpm)
    /\ \A k \in {row.id : row \in ApiKeyRows} :
          (per_key_rpm > 0 /\ PerKeyWithinWindow(k)) =>
             Cardinality({r \in PerKeyChecks(k) : req[r].k_res = "admit"})
                = Min(Cardinality(PerKeyChecks(k)), per_key_rpm)

\* two requests of one key in flight together, the second through the global
\* check overtaking the first at the per-key check: the key, with limit 1,
\* admitted one of the two
C30_Witness ==
    \E r1, r2 \in Reqs :
        /\ per_key_rpm = 1
        /\ req[r1].g_ord > 0 /\ req[r1].g_ord < req[r2].g_ord
        /\ req[r2].k_ord > 0 /\ req[r2].k_ord < req[r1].k_ord
        /\ req[r1].k_key = req[r2].k_key
        /\ req[r2].k_res = "admit" /\ req[r1].k_res = "reject"
        /\ req[r1].k_now = req[r2].k_now

\* ------------------------------------------------ claims on QuotaInfo ownership
\* the QuotaInfo that the checks of request r returned last: the one of
\* check_per_key, or that of check_global when check_per_key was not
\* reached, failed or ran with limit 0 and so returned none
LastQuotaInfo(r) == IF req[r].k_info # None THEN req[r].k_info ELSE req[r].g_info

\* remaining as the check of request r itself had to compute it: the limit
\* minus the admissions of the scope up to and including its own that are
\* still in its window, 0 when it was rejected
OwnPerKeyRemaining(r) ==
    IF req[r].k_res = "reject" THEN 0
    ELSE per_key_rpm -
         Cardinality({q \in Reqs : /\ req[q].k_res = "admit" /\ req[q].k_ord > 0
                                   /\ req[q].k_key = req[r].k_key
                                   /\ req[q].k_ord <= req[r].k_ord
                                   /\ req[q].k_now >= req[r].k_now - WINDOW_DURATION})

OwnGlobalRemaining(r) ==
    IF req[r].g_res = "reject" THEN 0
    ELSE global_rpm -
         Cardinality({q \in Reqs : /\ req[q].g_res = "admit" /\ req[q].g_ord > 0
                                   /\ req[q].g_ord <= req[r].g_ord
                                   /\ req[q].g_now >= req[r].g_now - WINDOW_DURATION})

\* C31: QuotaInfo is not shared across requests: under every interleaving
\* of concurrent requests the X-RateLimit-* headers of a response are the
\* QuotaInfo that the last limiter check of the same request returned (none
\* when no check of the request returned one), with the limit of that scope
\* and the remaining count as of that request's own check.
C31_HeadersCarryOwnQuotaInfo ==
    \A r \in Reqs : Done(r) =>
        /\ req[r].rl_headers = LastQuotaInfo(r)
        /\ req[r].k_info # None =>
              /\ Unwrap(req[r].rl_headers).limit = per_key_rpm
              /\ Unwrap(req[r].rl_headers).remaining = OwnPerKeyRemaining(r)
        /\ (req[r].k_info = None /\ req[r].g_info # None) =>
              /\ Unwrap(req[r].rl_headers).limit = global_rpm
              /\ Unwrap(req[r].rl_headers).remaining = OwnGlobalRemaining(r)

\* two requests in flight together, the second through the global check
\* overtaking the first at the per-key check: both are answered, with
\* different X-RateLimit-* headers
C31_Witness ==
    \E r1, r2 \in Reqs :
        /\ Done(r1) /\ Done(r2)
        /\ req[r1].g_ord > 0 /\ req[r1].g_ord < req[r2].g_ord
        /\ req[r2].k_ord > 0 /\ req[r2].k_ord < req[r1].k_ord
        /\ req[r1].rl_headers # None /\ req[r2].rl_headers # None
        /\ req[r1].rl_headers # req[r2].rl_headers

\* ------------------------------------------------ claims on locks and lookup
\* request r is in AuthenticatedKey::from_request before its per-key check:
\* reading the header, awaiting the credential store, verifying the hash
Authenticating(r) == req[r].pc = "auth"

\* C32: no request holds a limiter lock while it looks its credentials up
\* or verifies the secret: the global window lock is released before
\* authentication starts, the per-key map lock is taken only after the
\* verification has finished, and a request that is still authenticating
\* never keeps another request's check_global or check_per_key waiting.
C32_NoLockHeldDuringLookup ==
    /\ \A r \in Reqs : Authenticating(r) => (global_lock # r /\ per_key_lock # r)
    /\ \A r \in Reqs : global_lock = r => req[r].pc = "global_crit"
    /\ \A r \in Reqs : per_key_lock = r =>
          (req[r].pc = "per_key_crit" /\ RanStep(r, "verify_password")
             /\ req[r].auth_key_id # None)
    /\ \A r, q \in Reqs :
          (Authenticating(r) /\ q # r) =>
             /\ (req[q].pc = "global" /\ \A p \in Reqs : req[p].pc # "global_crit")
                   => ENABLED CheckGlobalEnter(q)
             /\ (req[q].pc = "per_key" /\ \A p \in Reqs : req[p].pc # "per_key_crit")
                   => ENABLED CheckPerKeyEnter(q)

\* a request that passed the global check is authenticating while another
\* request is inside check_global and holds the global window lock
C32_Witness ==
    \E r, q \in Reqs :
        /\ Authenticating(r) /\ req[r].g_res = "admit" /\ global_rpm > 0
        /\ req[q].pc = "global_crit" /\ global_lock = q

\* ------------------------------------------------ claims on the credential text
\* the decoded credential text of request r
CredentialText(r) == Unwrap(req[r].header).text

HasColon(text) == \E i \in 1..Len(text) : text[i] = ":"

\* text is key_id, ':' and secret, with no ':' in key_id
SplitsInto(text, key_id, secret) ==
    text = key_id \o <<":">> \o secret /\ ~HasColon(key_id)

\* the rows whose key_id and secret the text of request r is made of
MatchingRows(r) ==
    {row \in api_keys :
        /\ row.active
        /\ PasswordHash_new_ok(row.secret_hash)
        /\ SplitsInto(CredentialText(r), row.key_id, row.secret_hash.secret)}

\* C33: the decoded credential text is split at its first ':' only: key_id is
\* what precedes it and the secret all that follows, further ':' included.
\* A text without ':' is rejected before any lookup; a request authenticates
\* exactly as the active key whose key_id (free of ':') and secret make up
\* the text, so a secret with a ':' in it authenticates and a stored key_id
\* with a ':' in it is never matched.
C33_SplitAtFirstColon ==
    \A r \in Reqs : (Arrived(r) /\ InTrace(r, "authenticate")) =>
        /\ ~HasColon(CredentialText(r)) =>
              (req[r].status = 401 /\ ~RanStep(r, "fetch_optional"))
        /\ HasColon(CredentialText(r)) => RanStep(r, "fetch_optional")
        /\ req[r].auth_key_id # None =>
              \E row \in MatchingRows(r) : req[r].auth_key_id = Some(row.id)
        /\ MatchingRows(r) # {} => req[r].auth_key_id # None
        /\ \A row \in api_keys :
              HasColon(row.key_id) => req[r].auth_key_id # Some(row.id)

\* a request authenticated with a secret that has a ':' in it, and a request
\* sending the key_id and secret of the row whose key_id has a ':' in it was
\* answered 401
C33_Witness ==
    \E r1, r2 \in Reqs :
        /\ req[r1].auth_key_id = Some(1)
        /\ CredentialText(r1) = <<"k", ":", "s", ":">>
        /\ Done(r2) /\ req[r2].status = 401
        /\ CredentialText(r2) = <<"k", ":", ":", "s">>

\* ------------------------------------------------ claims on retries
\* how often a step occurs in a sequence of steps
Occurrences(steps, step) == Cardinality({i \in 1..Len(steps) : steps[i] = step})

\* the instant of the last check that pruned the scope, given the instants
\* of the checks that took its lock
LastNow(nows) == CHOOSE t \in nows : \A u \in nows : u <= t

GlobalNows == {req[r].g_now : r \in {q \in Reqs : req[q].g_ord > 0}}
PerKeyNows(k) == {req[r].k_now : r \in {q \in Reqs : req[q].k_ord > 0 /\ req[q].k_key = k}}

\* the timestamps a window holds are those of these admitted requests, one
\* each, as far as the last pruning of the scope left them in
HoldsOnePerAdmitted(window, nows, admitted_nows) ==
    \A t \in 0..(MaxTicks * TickStep) :
        Occurrences(window, t) =
            IF nows # {} /\ t >= LastNow(nows) - WINDOW_DURATION
            THEN Cardinality({r \in Reqs : admitted_nows[r] = Some(t)})
            ELSE 0

\* C34: nothing is retried: a request runs check_global, the credential
\* lookup, the verification and check_per_key at most once each, so it puts
\* at most one timestamp into the global window and at most one into the
\* window of its key; the timestamp of an admitted global check stays in
\* the global window (until it expires) whatever becomes of the request
\* afterwards, a 401 of authentication or a 429 of the per-key limit
\* included.
C34_NoRetryNoRefund ==
    /\ \A r \in Reqs :
          /\ Occurrences(req[r].trace, "check_global") <= 1
          /\ Occurrences(req[r].trace, "authenticate") <= 1
          /\ Occurrences(req[r].trace, "check_per_key") <= 1
          /\ Occurrences(req[r].auth_steps, "fetch_optional") <= 1
          /\ Occurrences(req[r].auth_steps, "verify_password") <= 1
    /\ HoldsOnePerAdmitted(global_window, GlobalNows,
          [r \in Reqs |-> IF req[r].g_res = "admit" /\ req[r].g_ord > 0
                          THEN Some(req[r].g_now) ELSE None])
    /\ \A k \in DOMAIN per_key_windows :
          HoldsOnePerAdmitted(per_key_windows[k], PerKeyNows(k),
             [r \in Reqs |-> IF req[r].k_res = "admit" /\ req[r].k_ord > 0
                                /\ req[r].k_key = k
                             THEN Some(req[r].k_now) ELSE None])

\* a request was admitted by the global check and then answered 401 by
\* authentication; its timestamp is still in the global window, and the
\* next request, made within the window, found the scope full
C34_Witness ==
    \E r1, r2 \in Reqs :
        /\ Done(r1) /\ req[r1].g_res = "admit" /\ global_rpm > 0
        /\ req[r1].status = 401 /\ AuthFailed(r1)
        /\ req[r2].g_ord > req[r1].g_ord
        /\ req[r2].g_res = "reject"
        /\ global_window = <<req[r1].g_now>>

\* ------------------------------------------------ claims on rejected checks
\* the timestamps of window w that are at most 60 seconds old at instant now
Unexpired(w, now) == SelectSeq(w, LAMBDA t : t >= now - WINDOW_DURATION)

\* this step is a direct call on a limited scope that was rejected
RejectedCallStep == CallStep /\ ~Disabled(ScopeLimit(LastCall)) /\ ~LastCall.res.admit

\* C35: a rejected check adds no timestamp: after it the window of the scope
\* holds the timestamps it held before, the expired ones left out, in the
\* same order, so its oldest timestamp, which decides when the scope admits
\* again, is not moved by rejections.
C35_RejectedCheckAddsNothing ==
    [][ RejectedCallStep =>
           /\ WindowAfter = Unexpired(WindowBefore, LastCall.now)
           /\ WindowAfter # <<>>
           /\ Head(WindowAfter) = Head(Unexpired(WindowBefore, LastCall.now)) ]_vars

\* limit 1: a check admitted at 0, checks rejected 30 and 60 seconds later,
\* and the check at 90 seconds admitted
C35_Witness ==
    /\ global_rpm = 1
    /\ \E i, j, k, l \in CallIdx :
          /\ i < j /\ j < k /\ k < l
          /\ \A c \in {i, j, k, l} : calls[c].scope = "global"
          /\ calls[i].now = 0 /\ calls[i].res.admit
          /\ calls[j].now = HalfWindow /\ ~calls[j].res.admit
          /\ calls[k].now = 2 * HalfWindow /\ ~calls[k].res.admit
          /\ calls[l].now = 3 * HalfWindow /\ calls[l].res.admit

\* ------------------------------------------------ claims on the reset time
\* the instant of the monotonic clock that the reset time of call c names
ResetInstant(c) == Unwrap(c.res.info).reset - UnixOffset

SameScope(c, d) == c.scope = d.scope /\ c.key = d.key

\* call i was rejected on a limited scope, call j is a later call on the
\* scope, and no call on the scope was admitted between the two
RetryAfterReject(i, j) ==
    /\ i < j
    /\ ~Disabled(ScopeLimit(calls[i])) /\ ~calls[i].res.admit
    /\ SameScope(calls[i], calls[j])
    /\ \A m \in CallIdx :
          (i < m /\ m < j /\ SameScope(calls[i], calls[m])) => ~calls[m].res.admit

\* C36, as stated: after a check rejected with reset time R, a check on the
\* scope made at the instant of R (the oldest timestamp + 60 seconds) or
\* later is admitted, if no check on the scope was admitted in between.
C36_ResetHonoured ==
    \A i, j \in CallIdx :
        (RetryAfterReject(i, j) /\ calls[j].now >= ResetInstant(calls[i]))
           => calls[j].res.admit

\* C36, amended: after a check rejected with reset time R, a check on the
\* scope made later than the instant of R is admitted, if no check on the
\* scope was admitted in between; at the instant of R itself the oldest
\* timestamp is exactly 60 seconds old, still counts, and the check is
\* rejected.
C36_ResetHonouredAfterwards ==
    \A i, j \in CallIdx :
        RetryAfterReject(i, j) =>
           /\ calls[j].now > ResetInstant(calls[i]) => calls[j].res.admit
           /\ calls[j].now <= ResetInstant(calls[i]) => ~calls[j].res.admit

\* a check was rejected, the check made at the instant of its reset time was
\* rejected too, and the one after that instant was admitted
C36_Witness ==
    \E i, j, k \in CallIdx :
        /\ RetryAfterReject(i, j) /\ RetryAfterReject(i, k)
        /\ calls[j].now = ResetInstant(calls[i]) /\ ~calls[j].res.admit
        /\ calls[k].now > ResetInstant(calls[i]) /\ calls[k].res.admit

\* ------------------------------------------------ claims on termination
\* request r is in check_global / check_per_key: called, not yet returned
InCheckGlobal(r) == req[r].pc \in {"global", "global_crit"}
InCheckPerKey(r) == req[r].pc \in {"per_key", "per_key_crit"}

\* C37: every limiter check terminates and the limiter cannot deadlock: no
\* request holds the global window lock and the per-key map lock together,
\* a lock is held only by a request inside the matching check (it is
\* released on every return path), and under fair scheduling every call of
\* check_global and of check_per_key returns: admit, reject, or an internal
\* error.
C37_ChecksTerminate ==
    /\ [](\A r \in Reqs : ~(global_lock = r /\ per_key_lock = r))
    /\ [](\A r \in Reqs : /\ global_lock = r => req[r].pc = "global_crit"
                          /\ per_key_lock = r => req[r].pc = "per_key_crit"
                          /\ req[r].pc = "global_crit" => global_lock = r
                          /\ req[r].pc = "per_key_crit" => per_key_lock = r)
    /\ \A r \in Reqs :
          InCheckGlobal(r) ~> (req[r].g_res \in {"admit", "reject", "error"})
    /\ \A r \in Reqs :
          InCheckPerKey(r) ~> (req[r].k_res \in {"admit", "reject", "error"})

\* a request is inside check_per_key and holds the per-key map lock, another
\* request is waiting for that lock, and the global window lock is poisoned
C37_Witness ==
    \E r, q \in Reqs :
        /\ r # q
        /\ per_key_lock = r /\ req[r].pc = "per_key_crit"
        /\ req[q].pc = "per_key" /\ ~Disabled(per_key_rpm)
        /\ global_poisoned

\* ------------------------------------------------ claims on the usage record
\* the key the Authorization header of request r names
KeyOf(r) == {key \in api_keys : key.key_id = KeyIdOf(req[r].header)}

\* C38: at most one usage record is written per request; it carries the
\* internal id of the key the request authenticated as and the status code
\* of the response sent for the request (429 for a request rejected by the
\* per-key limit), and once the write of a request has ended none follows.
C38_OneUsageRecordPerRequest ==
    /\ [](\A r \in Reqs : Cardinality(UsageRows(r)) <= 1)
    /\ [](\A row \in usage_logs :
             /\ Done(row.req)
             /\ \E key \in KeyOf(row.req) : row.api_key_id = key.id
             /\ Some(row.api_key_id) = req[row.req].auth_key_id
             /\ row.status_code = req[row.req].status
             /\ req[row.req].k_res = "reject" => row.status_code = 429)
    /\ [][ \A r \in Reqs :
              /\ req[r].usage \in {"inserted", "failed"} => req[r].usage' = req[r].usage
              /\ UsageRows(r) # {} => UsageRows(r)' = UsageRows(r) ]_vars

\* two requests of one key are answered 200 and 429, and the table holds
\* exactly one row for each, with the id of the key and these status codes
C38_Witness ==
    \E r1, r2 \in Reqs :
        /\ req[r1].k_key = req[r2].k_key
        /\ req[r1].status = 200 /\ req[r2].status = 429
        /\ \E row1, row2 \in usage_logs :
              /\ usage_logs = {row1, row2}
              /\ row1.req = r1 /\ row1.status_code = 200
              /\ row2.req = r2 /\ row2.status_code = 429
              /\ row1.api_key_id = row2.api_key_id

====
